---- MODULE Spec2Model ----
(***************************************************************************)
(* Model of the classification, validation and manifest engine of          *)
(* AnalizarEntregable: src/Apolo.py (the later revision) and               *)
(* src/steamlit_Analizar_entregable.py (the earlier revision, whose        *)
(* definitions carry the suffix _steamlit).                                *)
(*                                                                         *)
(* Python strings are TLA+ strings; a character is a string of length 1.   *)
(* Python lists are sequences; a dict is modelled by the sequence of its   *)
(* keys in insertion order together with a lookup operator.                *)
(***************************************************************************)
EXTENDS Integers, Sequences, FiniteSets, TLC

\* ------------------------------------------------------------------------
\* Bounds of the model
\* ------------------------------------------------------------------------

\* Longest list of candidate files handed to the manifest generator.
MaxFiles == 3

\* Largest number of lines of a validated file.
MaxLines == 3

\* ------------------------------------------------------------------------
\* Python str operations
\* ------------------------------------------------------------------------

\* Python's None.
None == "<None>"

\* float('inf'), the key of a name without a leading number: larger than
\* every int (see NumLess).
Inf == -1

\* Characters matched by \s.
WhiteChars == {" ", "\n", "\t", "\r"}

\* The characters of the model in code-point order.
Alphabet == " #*-./0123456789;=ABCDEFGHIJKLMNOPQRSTUVWXYZ_abcdefghijklmnopqrstuvwxyz"

UpperChars == "ABCDEFGHIJKLMNOPQRSTUVWXYZ"

LowerChars == "abcdefghijklmnopqrstuvwxyz"

DigitChars == "0123456789"

\* s[i-1:i]: the character at the 1-based index i, "" beyond the end.
CharAt(s, i) == SubSeq(s, i, i)

RECURSIVE FindFrom(_, _, _)
\* The first index >= i (1-based) of the character c in s, 0 if none.
FindFrom(c, s, i) ==
  IF i > Len(s) THEN 0 ELSE IF CharAt(s, i) = c THEN i ELSE FindFrom(c, s, i + 1)

RECURSIVE FindBack(_, _, _)
\* The last index <= i of the character c in s, 0 if none.
FindBack(c, s, i) ==
  IF i < 1 THEN 0 ELSE IF CharAt(s, i) = c THEN i ELSE FindBack(c, s, i - 1)

\* str.find on one character, 1-based, 0 if absent.
IndexOf(c, s) == FindFrom(c, s, 1)

\* str.rfind on one character, 1-based, 0 if absent.
LastIndexOf(c, s) == FindBack(c, s, Len(s))

\* The characters of the model.
Chars == {CharAt(Alphabet, i) : i \in 1..Len(Alphabet)} \cup WhiteChars

\* ord(c), up to an order-preserving renumbering; the control characters
\* (not in Alphabet) come first.
OrdTable == [c \in Chars |-> IndexOf(c, Alphabet)]

LowerTable ==
  [c \in Chars |-> IF IndexOf(c, UpperChars) > 0 THEN CharAt(LowerChars, IndexOf(c, UpperChars)) ELSE c]

UpperTable ==
  [c \in Chars |-> IF IndexOf(c, LowerChars) > 0 THEN CharAt(UpperChars, IndexOf(c, LowerChars)) ELSE c]

DigitSet == {CharAt(DigitChars, i) : i \in 1..Len(DigitChars)}

WordSet ==
  DigitSet \cup {"_"} \cup {CharAt(UpperChars, i) : i \in 1..Len(UpperChars)}
           \cup {CharAt(LowerChars, i) : i \in 1..Len(LowerChars)}

Ord(c) == OrdTable[c]

IsDigit(c) == c \in DigitSet

\* \w of the re module.
IsWordChar(c) == c \in WordSet

LowerChar(c) == LowerTable[c]

UpperChar(c) == UpperTable[c]

RECURSIVE Lower(_)
\* str.lower
Lower(s) == IF s = "" THEN "" ELSE LowerChar(CharAt(s, 1)) \o Lower(SubSeq(s, 2, Len(s)))

RECURSIVE Upper(_)
\* str.upper
Upper(s) == IF s = "" THEN "" ELSE UpperChar(CharAt(s, 1)) \o Upper(SubSeq(s, 2, Len(s)))

RECURSIVE StrLess(_, _)
\* a < b on str: lexicographic by code point.
StrLess(a, b) ==
  IF b = "" THEN FALSE
  ELSE IF a = "" THEN TRUE
  ELSE IF CharAt(a, 1) = CharAt(b, 1) THEN StrLess(SubSeq(a, 2, Len(a)), SubSeq(b, 2, Len(b)))
  ELSE Ord(CharAt(a, 1)) < Ord(CharAt(b, 1))

\* sub in s
Contains(sub, s) ==
  \E i \in 1..(Len(s) - Len(sub) + 1) : SubSeq(s, i, i + Len(sub) - 1) = sub

\* s.startswith(p)
StartsWith(s, p) == Len(p) <= Len(s) /\ SubSeq(s, 1, Len(p)) = p

RECURSIVE SkipWhite(_, _)
\* The first index >= i of a character of s that is not white space,
\* Len(s) + 1 if none.
SkipWhite(s, i) ==
  IF i <= Len(s) /\ CharAt(s, i) \in WhiteChars THEN SkipWhite(s, i + 1) ELSE i

RECURSIVE SkipWhiteBack(_, _)
\* The last index <= i of a character of s that is not white space, 0 if none.
SkipWhiteBack(s, i) ==
  IF i >= 1 /\ CharAt(s, i) \in WhiteChars THEN SkipWhiteBack(s, i - 1) ELSE i

\* str.strip
Strip(s) == SubSeq(s, SkipWhite(s, 1), SkipWhiteBack(s, Len(s)))

RECURSIVE Join(_, _)
\* sep.join(parts)
Join(sep, parts) ==
  IF Len(parts) = 0 THEN ""
  ELSE IF Len(parts) = 1 THEN parts[1]
  ELSE parts[1] \o sep \o Join(sep, Tail(parts))

RECURSIVE DigitsValue(_, _)
\* int() of a string of decimal digits, continuing from acc.
DigitsValue(s, acc) ==
  IF s = "" THEN acc
  ELSE DigitsValue(SubSeq(s, 2, Len(s)), 10 * acc + (IndexOf(CharAt(s, 1), DigitChars) - 1))

RECURSIVE DigitRun(_, _)
\* The number of digits of s from index i on, up to the first non-digit.
DigitRun(s, i) ==
  IF i <= Len(s) /\ IsDigit(CharAt(s, i)) THEN 1 + DigitRun(s, i + 1) ELSE 0

\* The length of the longest prefix of s made of digits: the match of (\d+).
DigitPrefixLen(s) == DigitRun(s, 1)

\* Order of int and float('inf') values.
NumLess(a, b) == a # Inf /\ (b = Inf \/ a < b)

\* A list comprehension [e for ...] as a list: every element evaluated once.
ListOf(f) == f \o <<>>

\* sorted(s, key=...): a stable sort; less[i][j] tells whether the key of
\* s[i] is smaller than the key of s[j].
SortBy(s, less) ==
  LET RECURSIVE go(_)
      go(n) ==
        IF n = 0 THEN <<>>
        ELSE LET r == go(n - 1)
                 k == Len(SelectSeq(r, LAMBDA e : ~less[n][e]))
             IN SubSeq(r, 1, k) \o <<n>> \o SubSeq(r, k + 1, Len(r))
      order == go(Len(s))
  IN ListOf([i \in 1..Len(s) |-> s[order[i]]])

\* ------------------------------------------------------------------------
\* pathlib / os.path operations on POSIX-style relative paths
\* ------------------------------------------------------------------------

\* Path(p).name
PathName(p) == IF p = "." THEN "" ELSE SubSeq(p, LastIndexOf("/", p) + 1, Len(p))

\* Path(p).parent.as_posix()
PathParent(p) == IF LastIndexOf("/", p) = 0 THEN "." ELSE SubSeq(p, 1, LastIndexOf("/", p) - 1)

RECURSIVE PathParts(_)
\* Path(p).parts
PathParts(p) ==
  IF p = "" \/ p = "." THEN <<>>
  ELSE IF IndexOf("/", p) = 0 THEN <<p>>
  ELSE <<SubSeq(p, 1, IndexOf("/", p) - 1)>> \o PathParts(SubSeq(p, IndexOf("/", p) + 1, Len(p)))

\* Path(p).suffix
PathSuffix(p) ==
  LET name == PathName(p)
      i == LastIndexOf(".", name)
  IN IF 1 < i /\ i < Len(name) THEN SubSeq(name, i, Len(name)) ELSE ""

\* Path(a, b, ...).as_posix() for relative segments: empty segments vanish.
PathJoin(segments) == Join("/", SelectSeq(segments, LAMBDA x : x # ""))

\* ------------------------------------------------------------------------
\* Configuration of the manifest
\* ------------------------------------------------------------------------

ALLOWED_EXTENSIONS_MANIFEST == {".sql", ".pks", ".pkb", ".prc", ".fnc", ".trg", ".vw", ".fmb", ".rdf"}

ALLOWED_EXTENSIONS_MANIFEST_steamlit == {".sql", ".pks", ".pkb", ".prc", ".fnc", ".trg", ".vw"}

SQL_SPECIFIC_FOLDERS == {"scripts", "grants", "opciones", "indices", "tabla", "sequence"}

\* MANIFEST_CATEGORIES with the entry of the package bodies written before
\* the entry of the packages.
MANIFEST_CATEGORIES_bodies_first ==
  << [key |-> "scripts", header |-> "-- Ejecucion de scripts sql", extensions |-> {".sql"}],
     [key |-> "packagesbodies", header |-> "-- Ejecucion de script creacion de packagesBodies", extensions |-> {".pkb"}],
     [key |-> "packages", header |-> "-- Ejecucion de script creacion de packages", extensions |-> {".pks"}],
     [key |-> "procedures", header |-> "-- Ejecucion de script creacion de procedures", extensions |-> {".prc"}],
     [key |-> "functions", header |-> "-- Ejecucion de script creacion de funciones", extensions |-> {".fnc"}],
     [key |-> "views", header |-> "-- Ejecucion de script creacion de views", extensions |-> {".vw"}],
     [key |-> "triggers", header |-> "-- Ejecucion de script creacion de triggers", extensions |-> {".trg"}] >>

\* The dict MANIFEST_CATEGORIES in insertion order, which is the order of
\* manifest_categories.items().
MANIFEST_CATEGORIES ==
  << [key |-> "scripts", header |-> "-- Ejecucion de scripts sql", extensions |-> {".sql"}],
     [key |-> "packages", header |-> "-- Ejecucion de script creacion de packages", extensions |-> {".pks"}],
     [key |-> "packagesbodies", header |-> "-- Ejecucion de script creacion de packagesBodies", extensions |-> {".pkb"}],
     [key |-> "procedures", header |-> "-- Ejecucion de script creacion de procedures", extensions |-> {".prc"}],
     [key |-> "functions", header |-> "-- Ejecucion de script creacion de funciones", extensions |-> {".fnc"}],
     [key |-> "views", header |-> "-- Ejecucion de script creacion de views", extensions |-> {".vw"}],
     [key |-> "triggers", header |-> "-- Ejecucion de script creacion de triggers", extensions |-> {".trg"}] >>

\* numeric_key(s)
numeric_key(s) ==
  IF DigitPrefixLen(s) > 0 THEN DigitsValue(SubSeq(s, 1, DigitPrefixLen(s)), 0) ELSE Inf

\* extract_prefix_number(filename_str)
extract_prefix_number(filename_str) ==
  IF DigitPrefixLen(filename_str) > 0
  THEN DigitsValue(SubSeq(filename_str, 1, DigitPrefixLen(filename_str)), 0)
  ELSE Inf

\* The name of the temporary directory the archive is extracted into.
TempDirName == "automation_streamlit_tmp"

\* The dict collect_files_for_manifest builds for the file at the relative
\* path rel of the extracted archive.
FileData(rel) ==
  [ absolute_path |-> TempDirName \o "/" \o rel,
    relative_path_from_extracted |-> rel,
    parent_folder_name |-> IF PathParent(rel) = "." THEN TempDirName ELSE PathName(PathParent(rel)),
    prefix_num |-> extract_prefix_number(PathName(rel)),
    extension |-> Lower(PathSuffix(rel)),
    filename_str |-> PathName(rel) ]

\* ------------------------------------------------------------------------
\* Classifier
\* ------------------------------------------------------------------------

\* The any(...) of get_manifest_category: some part of the relative path
\* (the file name is the last part) contains a script-like keyword.
is_in_script_like_folder(file_data, script_like_folders) ==
  LET relative_path_parts == PathParts(Lower(file_data.relative_path_from_extracted))
      keywords == {Lower(keyword) : keyword \in script_like_folders}
  IN \E i \in 1..Len(relative_path_parts) : \E keyword \in keywords :
       Contains(keyword, relative_path_parts[i])

\* The key of the first category of manifest_categories.items() whose
\* extensions hold file_ext, None if there is none.
FirstCategoryOfExtension(file_ext, manifest_categories) ==
  LET hits == {i \in 1..Len(manifest_categories) : file_ext \in manifest_categories[i].extensions}
  IN IF hits = {} THEN None
     ELSE manifest_categories[CHOOSE i \in hits : \A j \in hits : i <= j].key

\* get_manifest_category of the earlier revision: the folder-override policy.
get_manifest_category_steamlit(file_data, manifest_categories, script_like_folders) ==
  LET file_ext == Lower(file_data.extension)
      in_script_like == is_in_script_like_folder(file_data, script_like_folders)
  IN IF in_script_like /\ file_ext \in ALLOWED_EXTENSIONS_MANIFEST_steamlit THEN "scripts"
     ELSE IF ~in_script_like THEN FirstCategoryOfExtension(file_ext, manifest_categories)
     ELSE None

\* get_manifest_category sending every categorized file of a script-like
\* folder to 'scripts'.
get_manifest_category_scripts_folder(file_data, manifest_categories, script_like_folders) ==
  LET by_extension == FirstCategoryOfExtension(Lower(file_data.extension), manifest_categories)
  IN IF by_extension # None /\ is_in_script_like_folder(file_data, script_like_folders)
     THEN "scripts"
     ELSE by_extension

\* get_manifest_category of src/Apolo.py: both branches of the loop body
\* return the category whose extensions hold the file's extension.
get_manifest_category(file_data, manifest_categories, script_like_folders) ==
  LET file_ext == Lower(file_data.extension)
  IN FirstCategoryOfExtension(file_ext, manifest_categories)

\* ------------------------------------------------------------------------
\* Manifest generator
\* ------------------------------------------------------------------------

\* The keys of a dict filled by first assignment, in insertion order: the
\* elements of s, each at its first occurrence.
InsertionOrder(s) ==
  LET RECURSIVE go(_, _)
      go(i, acc) ==
        IF i > Len(s) THEN acc
        ELSE IF \E j \in 1..Len(acc) : acc[j] = s[i] THEN go(i + 1, acc)
        ELSE go(i + 1, Append(acc, s[i]))
  IN go(1, <<>>)

\* The original folder of a file, relative to the archive root.
OriginalFolder(file_data) == PathParent(file_data.relative_path_from_extracted)

\* SortFolders with the leading number of the whole relative path of the
\* folder as key.
SortFolders_by_path_number(folders) ==
  LET keys == ListOf([i \in 1..Len(folders) |-> numeric_key(folders[i])])
  IN SortBy(folders, [i \in 1..Len(folders) |-> [j \in 1..Len(folders) |-> NumLess(keys[i], keys[j])]])

\* sorted(keys, key=lambda x: numeric_key(Path(x).name))
SortFolders(folders) ==
  LET keys == ListOf([i \in 1..Len(folders) |-> numeric_key(PathName(folders[i]))])
  IN SortBy(folders, [i \in 1..Len(folders) |-> [j \in 1..Len(folders) |-> NumLess(keys[i], keys[j])]])

\* StandardKeyLess comparing the file names only, so the prefix counts as
\* text.
StandardKeyLess_by_name(x, y) == StrLess(x.filename_str, y.filename_str)

\* Order of the keys (prefix_num, filename_str).
StandardKeyLess(x, y) ==
  \/ NumLess(x.prefix_num, y.prefix_num)
  \/ x.prefix_num = y.prefix_num /\ StrLess(x.filename_str, y.filename_str)

\* Order of the keys (extension != ".pks", prefix_num, filename_str).
PackageKeyLess(x, y) ==
  LET bx == Lower(x.extension) # ".pks"
      by == Lower(y.extension) # ".pks"
  IN \/ ~bx /\ by
     \/ bx = by /\ StandardKeyLess(x, y)

\* The files of one (folder, category) block in the order they are written.
SortBlock(category_key, files_in_this_category_and_folder) ==
  LET fs == files_in_this_category_and_folder
  IN IF category_key = "packages" \/ category_key = "packagesbodies"
     THEN SortBy(fs, [i \in 1..Len(fs) |-> [j \in 1..Len(fs) |-> PackageKeyLess(fs[i], fs[j])]])
     ELSE SortBy(fs, [i \in 1..Len(fs) |-> [j \in 1..Len(fs) |-> StandardKeyLess(fs[i], fs[j])]])

\* ManifestLine with the schema in upper case, as the SCHEMA= header has it.
ManifestLine_schema_upper(schema_name_lower, category_key, file_data) ==
  PathJoin(<<"database", "plsql", Upper(schema_name_lower), Lower(category_key), file_data.filename_str>>)

\* The manifest line of one file of the category category_key.
ManifestLine(schema_name_lower, category_key, file_data) ==
  PathJoin(<<"database", "plsql", schema_name_lower, Lower(category_key), file_data.filename_str>>)

\* One entry of content_lines: the text of the line and, for a path line,
\* the relative path of the file it was written for ("" otherwise).
Entry(text, src) == [line |-> text, src |-> src]

\* The lines written for one (folder, category) block: header, then paths.
BlockEntries(schema_name_lower, details, files_in_this_category_and_folder) ==
  LET sorted_files == SortBlock(details.key, files_in_this_category_and_folder)
  IN <<Entry(details.header, "")>> \o
     [i \in 1..Len(sorted_files) |->
        Entry(ManifestLine(schema_name_lower, details.key, sorted_files[i]),
              sorted_files[i].relative_path_from_extracted)]

\* BlankBeforeBlock writing a blank line before every category header but
\* the first of the manifest.
BlankBeforeBlock_every_block(is_first_folder_block, added_first_category_header_in_folder) ==
  IF is_first_folder_block /\ ~added_first_category_header_in_folder THEN <<>>
  ELSE <<[line |-> "", src |-> ""]>>

\* The blank line written before a category header: none in the first
\* folder block, otherwise one before the first header of the folder.
BlankBeforeBlock(is_first_folder_block, added_first_category_header_in_folder) ==
  IF is_first_folder_block THEN <<>>
  ELSE IF ~added_first_category_header_in_folder THEN <<Entry("", "")>>
  ELSE <<>>

\* FolderEntries going through manifest_categories from its last entry to
\* its first.
FolderEntries_reversed(schema_name_lower, manifest_categories, is_first_folder_block, files_of) ==
  LET RECURSIVE go(_, _)
      go(i, added_first_category_header_in_folder) ==
        IF i < 1 THEN <<>>
        ELSE LET details == manifest_categories[i]
                 fs == files_of[details.key]
             IN IF fs = <<>> THEN go(i - 1, added_first_category_header_in_folder)
                ELSE BlankBeforeBlock(is_first_folder_block, added_first_category_header_in_folder)
                     \o BlockEntries(schema_name_lower, details, fs)
                     \o go(i - 1, TRUE)
  IN go(Len(manifest_categories), FALSE)

\* The body of the loop over manifest_categories.items() for one original
\* folder; files_of[category_key] are the folder's files of that category.
FolderEntries(schema_name_lower, manifest_categories, is_first_folder_block, files_of) ==
  LET RECURSIVE go(_, _)
      go(i, added_first_category_header_in_folder) ==
        IF i > Len(manifest_categories) THEN <<>>
        ELSE LET details == manifest_categories[i]
                 fs == files_of[details.key]
             IN IF fs = <<>> THEN go(i + 1, added_first_category_header_in_folder)
                ELSE BlankBeforeBlock(is_first_folder_block, added_first_category_header_in_folder)
                     \o BlockEntries(schema_name_lower, details, fs)
                     \o go(i + 1, TRUE)
  IN go(1, FALSE)

\* The loop over sorted_original_folders.  all_files_data[i] has the
\* category category_keys[i] and the original folder folders[i];
\* sorted_original_folders are the keys of the dict of folders, sorted.
AllFolderEntries(schema_name_lower, manifest_categories, all_files_data, category_keys, folders, sorted_original_folders) ==
  LET indices == [i \in 1..Len(all_files_data) |-> i]
      keys_of_categories == {manifest_categories[i].key : i \in 1..Len(manifest_categories)}
      files_of_folder_and_category(k, c) ==
        LET chosen == SelectSeq(indices, LAMBDA i : folders[i] = sorted_original_folders[k] /\ category_keys[i] = c)
        IN ListOf([n \in 1..Len(chosen) |-> all_files_data[chosen[n]]])
      RECURSIVE folders_from(_)
      folders_from(k) ==
        IF k > Len(sorted_original_folders) THEN <<>>
        ELSE FolderEntries(schema_name_lower, manifest_categories, k = 1,
                           [c \in keys_of_categories |-> files_of_folder_and_category(k, c)])
             \o folders_from(k + 1)
  IN folders_from(1)

\* content_entries without the blank line after the SCHEMA= header.
content_entries_header_only(schema_name, branch_name, all_files_data, script_like_folders, manifest_categories) ==
  LET category_keys ==
        ListOf([i \in 1..Len(all_files_data) |->
                  get_manifest_category(all_files_data[i], manifest_categories, script_like_folders)])
      folders == ListOf([i \in 1..Len(all_files_data) |-> OriginalFolder(all_files_data[i])])
      indices == [i \in 1..Len(all_files_data) |-> i]
      categorized == SelectSeq(indices, LAMBDA i : category_keys[i] # None)
      keys == ListOf([n \in 1..Len(categorized) |-> folders[categorized[n]]])
  IN <<Entry("SCHEMA=" \o Upper(schema_name), "")>>
     \o AllFolderEntries(Lower(schema_name), manifest_categories, all_files_data, category_keys, folders,
                         SortFolders(InsertionOrder(keys)))

\* content_lines of generate_manifest_content (src/Apolo.py), with the file
\* each path line was written for.  Only a categorized file makes its
\* folder a key of files_by_original_folder_and_category.
content_entries(schema_name, branch_name, all_files_data, script_like_folders, manifest_categories) ==
  LET category_keys ==
        ListOf([i \in 1..Len(all_files_data) |->
                  get_manifest_category(all_files_data[i], manifest_categories, script_like_folders)])
      folders == ListOf([i \in 1..Len(all_files_data) |-> OriginalFolder(all_files_data[i])])
      indices == [i \in 1..Len(all_files_data) |-> i]
      categorized == SelectSeq(indices, LAMBDA i : category_keys[i] # None)
      keys == ListOf([n \in 1..Len(categorized) |-> folders[categorized[n]]])
  IN <<Entry("SCHEMA=" \o Upper(schema_name), ""), Entry("", "")>>
     \o AllFolderEntries(Lower(schema_name), manifest_categories, all_files_data, category_keys, folders,
                         SortFolders(InsertionOrder(keys)))

\* content_lines of generate_manifest_content of the earlier revision:
\* every folder of the input is a key of files_by_original_folder, whether
\* or not one of its files is categorized.
content_entries_steamlit(schema_name, branch_name, all_files_data, script_like_folders, manifest_categories) ==
  LET category_keys ==
        ListOf([i \in 1..Len(all_files_data) |->
                  get_manifest_category_steamlit(all_files_data[i], manifest_categories, script_like_folders)])
      folders == ListOf([i \in 1..Len(all_files_data) |-> OriginalFolder(all_files_data[i])])
  IN <<Entry("SCHEMA=" \o Upper(schema_name), ""), Entry("", "")>>
     \o AllFolderEntries(Lower(schema_name), manifest_categories, all_files_data, category_keys, folders,
                         SortFolders(InsertionOrder(folders)))

\* The texts of a sequence of entries.
LinesOf(entries) == [i \in 1..Len(entries) |-> entries[i].line]

\* generate_manifest_content (src/Apolo.py): "\n".join(content_lines)
generate_manifest_content(schema_name, branch_name, all_files_data, script_like_folders, manifest_categories) ==
  Join("\n", LinesOf(content_entries(schema_name, branch_name, all_files_data,
                                     script_like_folders, manifest_categories)))

\* generate_manifest_content of the earlier revision.
generate_manifest_content_steamlit(schema_name, branch_name, all_files_data, script_like_folders, manifest_categories) ==
  Join("\n", LinesOf(content_entries_steamlit(schema_name, branch_name, all_files_data,
                                              script_like_folders, manifest_categories)))

\* generate_and_write_manifest: the outcome of one call, given whether
\* manifest.txt exists at manifest_path before it (old_file # None), which
\* revision runs, and which file-system operations fail.  ok is the value
\* returned, file the content of manifest.txt afterwards (None: no file),
\* wrote whether open(manifest_path, "w") and f.write were carried out.
WriteOutcome(content, writes, old_file, rmtree_fails, write_fails) ==
  LET after_clean == IF old_file # None /\ ~rmtree_fails THEN None ELSE old_file
  IN IF ~writes THEN [ok |-> TRUE, file |-> after_clean, wrote |-> FALSE, content |-> content]
     ELSE IF write_fails THEN [ok |-> FALSE, file |-> after_clean, wrote |-> FALSE, content |-> content]
     ELSE [ok |-> TRUE, file |-> content, wrote |-> TRUE, content |-> content]

\* generate_and_write_manifest (src/Apolo.py): writes only if
\* manifest_content.strip() is not empty.
generate_and_write_manifest(repo_path, branch_name, schema_name_, files_data, old_file, rmtree_fails, write_fails) ==
  LET content == generate_manifest_content(schema_name_, branch_name, files_data,
                                           SQL_SPECIFIC_FOLDERS, MANIFEST_CATEGORIES)
  IN WriteOutcome(content, Strip(content) # "", old_file, rmtree_fails, write_fails)

\* generate_and_write_manifest of the earlier revision: always writes.
generate_and_write_manifest_steamlit(repo_path, branch_name, schema_name_, files_data, old_file, rmtree_fails, write_fails) ==
  LET content == generate_manifest_content_steamlit(schema_name_, branch_name, files_data,
                                                    SQL_SPECIFIC_FOLDERS, MANIFEST_CATEGORIES)
  IN WriteOutcome(content, TRUE, old_file, rmtree_fails, write_fails)

\* ------------------------------------------------------------------------
\* Validation: check_slash_terminators and analyze_file
\* ------------------------------------------------------------------------

VALID_EXTS == {".sql", ".pks", ".pkb", ".prc", ".fnc", ".vw", ".trg", ".seq"}

\* The tuple of extensions check_slash_terminators applies to.
SLASH_EXTS == {".pks", ".pkb", ".prc", ".fnc", ".trg"}

RECURSIVE SkipWord(_, _)
\* The first index >= i of a character of s that \w does not match.
SkipWord(s, i) ==
  IF i <= Len(s) /\ IsWordChar(CharAt(s, i)) THEN SkipWord(s, i + 1) ELSE i

\* end_pattern, END(\s+\w+)?;\s*$ with re.IGNORECASE, matches at index i of
\* line.  \s and \w are disjoint and ';' is in neither, so each run is
\* taken whole; \s*$ matches when only white space follows.
EndPatternMatchesAt(line, i) ==
  /\ Lower(SubSeq(line, i, i + 2)) = "end"
  /\ LET k == i + 3
         w == SkipWhite(line, k)
         e == SkipWord(line, w)
     IN \/ CharAt(line, k) = ";" /\ SkipWhite(line, k + 1) > Len(line)
        \/ w > k /\ e > w /\ CharAt(line, e) = ";" /\ SkipWhite(line, e + 1) > Len(line)

\* end_pattern.search(line)
end_pattern_search(line) == \E i \in 1..(Len(line) - 3) : EndPatternMatchesAt(line, i)

\* IsSkippedLine skipping blank lines only.
IsSkippedLine_blank_only(line) == Strip(line) = ""

\* The condition of the while loop that skips blank and comment lines.
IsSkippedLine(line) ==
  \/ Strip(line) = ""
  \/ StartsWith(Strip(line), "--")
  \/ StartsWith(Strip(line), "/*")

RECURSIVE SkipLines(_, _)
\* The value of j after the while loop started at j (0-based, as in the code).
SkipLines(lines, j) ==
  IF j < Len(lines) /\ IsSkippedLine(lines[j + 1]) THEN SkipLines(lines, j + 1) ELSE j

\* The message of a missing slash after the END at 0-based index last_end_index.
SlashIssue(last_end_index) ==
  "Línea " \o ToString(last_end_index + 1) \o ": Falta '/' al final después del bloque END;."

RECURSIVE LastEndIndex(_, _)
\* The for loop from the end of the file: the 0-based index of the last line
\* end_pattern matches among lines[0..i], -1 if none.
LastEndIndex(lines, i) ==
  IF i < 0 THEN -1
  ELSE IF end_pattern_search(lines[i + 1]) THEN i
  ELSE LastEndIndex(lines, i - 1)

\* check_slash_terminators comparing the line after the END with '/'
\* without strip().
check_slash_terminators_unstripped(lines, ext) ==
  IF ext \notin SLASH_EXTS THEN <<>>
  ELSE LET last_end_index == LastEndIndex(lines, Len(lines) - 1)
           j == SkipLines(lines, last_end_index + 1)
       IN IF last_end_index = -1 THEN <<>>
          ELSE IF j = Len(lines) THEN <<SlashIssue(last_end_index)>>
          ELSE IF lines[j + 1] # "/" THEN <<SlashIssue(last_end_index)>>
          ELSE <<>>

\* check_slash_terminators(lines, ext), the same in both revisions.
check_slash_terminators(lines, ext) ==
  IF ext \notin SLASH_EXTS THEN <<>>
  ELSE LET last_end_index == LastEndIndex(lines, Len(lines) - 1)
           j == SkipLines(lines, last_end_index + 1)
       IN IF last_end_index = -1 THEN <<>>
          ELSE IF j = Len(lines) THEN <<SlashIssue(last_end_index)>>
          ELSE IF Strip(lines[j + 1]) # "/" THEN <<SlashIssue(last_end_index)>>
          ELSE <<>>

\* The message analyze_file returns when open() or readlines() raises.
ReadErrorIssue(path) == "Error al leer el archivo '" \o PathName(path) \o "': <e>"

\* analyze_file with the case check that the docstring of analyze_file
\* rules out: a finding for a file name whose extension is not lower-case.
analyze_file_case_check(path, ext, readable, content) ==
  IF Lower(ext) \notin VALID_EXTS THEN <<>>
  ELSE IF ~readable THEN <<ReadErrorIssue(path)>>
  ELSE (IF PathSuffix(path) # Lower(PathSuffix(path))
        THEN <<"La extensión de '" \o PathName(path) \o "' debe estar en minúsculas.">>
        ELSE <<>>) \o check_slash_terminators(content, ext)

\* analyze_file(path, ext) of src/Apolo.py; content is the list of lines
\* of the file at path, readable is false when reading it raises.
analyze_file(path, ext, readable, content) ==
  IF Lower(ext) \notin VALID_EXTS THEN <<>>
  ELSE IF ~readable THEN <<ReadErrorIssue(path)>>
  ELSE check_slash_terminators(content, ext)

\* analyze_file of the earlier revision: no test of the extension.
analyze_file_steamlit(path, ext, readable, content) ==
  IF ~readable THEN <<ReadErrorIssue(path)>>
  ELSE check_slash_terminators(content, ext)

\* ------------------------------------------------------------------------
\* Collectors: os.walk over the extracted archive
\* ------------------------------------------------------------------------
\* The extracted tree is given by walk, a list of the relative paths of its
\* files without repetition.  os.walk lists a directory in an order the
\* file system chooses: an entry (file or directory) comes before another
\* entry of the same directory when its first file comes first in walk.

\* The directory of the tree that holds the file or directory q ("." is
\* the root).
DirOf(q) == PathParent(q)

\* The file or directory q is inside the directory d, at any depth.
IsUnder(q, d) == d = "." \/ StartsWith(q, d \o "/")

RECURSIVE DirsAbove(_)
\* The directories on the way from the root to the directory d, with d.
DirsAbove(d) == IF d = "." THEN {"."} ELSE {d} \cup DirsAbove(DirOf(d))

\* The directories os.walk visits.
WalkDirs(walk) == UNION {DirsAbove(DirOf(walk[i])) : i \in 1..Len(walk)}

RECURSIVE FirstUnder(_, _, _)
\* The index in walk, from i on, of the first file inside the directory d.
FirstUnder(walk, d, i) ==
  IF i > Len(walk) THEN i
  ELSE IF IsUnder(walk[i], d) THEN i
  ELSE FirstUnder(walk, d, i + 1)

RECURSIVE WalkOrder(_, _, _)
\* The directories os.walk yields, top-down, from the directory d on;
\* elsewhere are the directories not yet listed.
WalkOrder(walk, d, dirs) ==
  LET subdirs == {c \in dirs : c # "." /\ DirOf(c) = d}
      RECURSIVE from(_)
      from(rest) ==
        IF rest = {} THEN <<>>
        ELSE LET c == CHOOSE x \in rest :
                        \A y \in rest : FirstUnder(walk, x, 1) <= FirstUnder(walk, y, 1)
             IN WalkOrder(walk, c, dirs) \o from(rest \ {c})
  IN <<d>> \o from(subdirs)

\* "rollback" in name.lower()
IsRollbackName(name) == Contains("rollback", Lower(name))

\* The name of the directory d as os.walk gives it: the root is the
\* temporary directory.
DirBaseName(d) == IF d = "." THEN TempDirName ELSE PathName(d)

\* The files of the directory d itself, in listing order.
FilesIn(walk, d) == SelectSeq(walk, LAMBDA q : DirOf(q) = d)

\* The directories collect_files_for_manifest descends into: it empties
\* dirnames at a rollback directory, so nothing below one is visited.
IsPruned(d) == \E a \in DirsAbove(d) : a # d /\ IsRollbackName(DirBaseName(a))

\* Order of the keys (relative_path_from_extracted, prefix_num, filename_str).
CollectKeyLess(x, y) ==
  \/ StrLess(x.relative_path_from_extracted, y.relative_path_from_extracted)
  \/ /\ x.relative_path_from_extracted = y.relative_path_from_extracted
     /\ StandardKeyLess(x, y)

\* collect_files_for_manifest(root_dir) with the allow-list allowed.
CollectFilesForManifest(walk, allowed) ==
  LET kept == SelectSeq(walk, LAMBDA q :
                /\ ~IsPruned(DirOf(q))
                /\ ~IsRollbackName(DirBaseName(DirOf(q)))
                /\ Lower(PathSuffix(q)) \in allowed)
      collected_files_data == ListOf([i \in 1..Len(kept) |-> FileData(kept[i])])
      n == Len(collected_files_data)
  IN SortBy(collected_files_data,
            [i \in 1..n |-> [j \in 1..n |-> CollectKeyLess(collected_files_data[i], collected_files_data[j])]])

\* collect_files_for_manifest of src/Apolo.py.
collect_files_for_manifest(walk) == CollectFilesForManifest(walk, ALLOWED_EXTENSIONS_MANIFEST)

\* collect_files_for_manifest of the earlier revision.
collect_files_for_manifest_steamlit(walk) == CollectFilesForManifest(walk, ALLOWED_EXTENSIONS_MANIFEST_steamlit)

\* sorted(valid, key=numeric_key) for the file names of one folder.
SortValid(valid) ==
  LET keys == ListOf([i \in 1..Len(valid) |-> numeric_key(PathName(valid[i]))])
  IN SortBy(valid, [i \in 1..Len(valid) |-> [j \in 1..Len(valid) |-> NumLess(keys[i], keys[j])]])

\* collect_and_order_files(root_dir): ordered_files_list, the third value
\* returned.  A rollback directory is skipped but os.walk still descends
\* into it; the paths are os.path.join(rel_folder, filename), so a file of
\* the root is "./<name>".
collect_and_order_files(walk) ==
  LET visited == WalkOrder(walk, ".", WalkDirs(walk))
      valid_of(d) == SelectSeq(FilesIn(walk, d), LAMBDA q : Lower(PathSuffix(q)) \in VALID_EXTS)
      folders == SelectSeq(visited, LAMBDA d : ~IsRollbackName(DirBaseName(d)) /\ valid_of(d) # <<>>)
      ordered_folders == SortFolders(folders)
      RECURSIVE flat(_)
      flat(k) ==
        IF k > Len(ordered_folders) THEN <<>>
        ELSE LET names == SortValid(valid_of(ordered_folders[k]))
             IN [i \in 1..Len(names) |-> ordered_folders[k] \o "/" \o PathName(names[i])] \o flat(k + 1)
  IN flat(1)

\* ------------------------------------------------------------------------
\* Branch checkout and copy to the repository
\* ------------------------------------------------------------------------

\* create_and_checkout_branch(repo_path, branch_name).  git tells which
\* git commands succeed on this call (checkout_main, pull, clean,
\* checkout_branch) and whether rev-parse finds the branch (branch_exists).
\* commands lists the commands run, branch is the branch checked out
\* afterwards (None: the one that was checked out before the call).
create_and_checkout_branch(repo_path, branch_name, git) ==
  LET checkout == IF git.branch_exists THEN "checkout " \o branch_name
                  ELSE "checkout -b " \o branch_name
      verify == "rev-parse --verify " \o branch_name
  IN IF ~git.checkout_main
     THEN [ok |-> FALSE, commands |-> <<"checkout main">>, branch |-> None]
     ELSE IF ~git.pull
     THEN [ok |-> FALSE, commands |-> <<"checkout main", "pull">>, branch |-> "main"]
     ELSE IF ~git.checkout_branch
     THEN [ok |-> FALSE, commands |-> <<"checkout main", "pull", "clean -fdx", verify, checkout>>,
           branch |-> "main"]
     ELSE [ok |-> TRUE, commands |-> <<"checkout main", "pull", "clean -fdx", verify, checkout>>,
           branch |-> branch_name]

\* dest_type_folder for the extension file_ext, "" if it has none.
DestTypeFolder(file_ext) ==
  IF file_ext = ".sql" THEN "scripts"
  ELSE IF file_ext = ".pks" THEN "packages"
  ELSE IF file_ext = ".pkb" THEN "packagesbodies"
  ELSE IF file_ext = ".prc" THEN "procedures"
  ELSE IF file_ext = ".fnc" THEN "functions"
  ELSE IF file_ext = ".trg" THEN "triggers"
  ELSE IF file_ext = ".vw" THEN "views"
  ELSE ""

\* DestRelativePath with the destinations of .fmb and .rdf exchanged.
DestRelativePath_forms_as_reports(file_data, schema_lower) ==
  LET file_ext == Lower(file_data.extension)
      name == PathName(file_data.absolute_path)
  IN IF file_ext \in {".sql", ".pks", ".pkb", ".prc", ".fnc", ".trg", ".vw"}
     THEN IF DestTypeFolder(file_ext) # ""
          THEN PathJoin(<<"database", "plsql", schema_lower, DestTypeFolder(file_ext), name>>)
          ELSE None
     ELSE IF file_ext = ".fmb" THEN PathJoin(<<"fuentes", "reporte", name>>)
     ELSE IF file_ext = ".rdf" THEN PathJoin(<<"fuentes", "forma", name>>)
     ELSE None

\* dest_relative_path of src/Apolo.py for one file, None if the file has no
\* destination.
DestRelativePath(file_data, schema_lower) ==
  LET file_ext == Lower(file_data.extension)
      name == PathName(file_data.absolute_path)
  IN IF file_ext \in {".sql", ".pks", ".pkb", ".prc", ".fnc", ".trg", ".vw"}
     THEN IF DestTypeFolder(file_ext) # ""
          THEN PathJoin(<<"database", "plsql", schema_lower, DestTypeFolder(file_ext), name>>)
          ELSE None
     ELSE IF file_ext = ".fmb" THEN PathJoin(<<"fuentes", "forma", name>>)
     ELSE IF file_ext = ".rdf" THEN PathJoin(<<"fuentes", "reporte", name>>)
     ELSE None

\* The destination of the earlier revision: the seven database folders only.
DestRelativePath_steamlit(file_data, schema_lower) ==
  LET file_ext == Lower(file_data.extension)
      name == PathName(file_data.absolute_path)
  IN IF DestTypeFolder(file_ext) # ""
     THEN PathJoin(<<"database", "plsql", schema_lower, DestTypeFolder(file_ext), name>>)
     ELSE None

RECURSIVE CopyLoop(_, _, _, _)
\* The loop of copy_extracted_files_to_repo from the file at index i on:
\* dests[i] is the destination of that file, fails_at the index of the file
\* whose mkdir or copy2 raises (0: none does).  The whole loop is inside one
\* try, so the first failure ends it.
CopyLoop(files_data, dests, fails_at, i) ==
  IF i > Len(files_data) THEN [ok |-> TRUE, copied |-> <<>>, skipped |-> <<>>]
  ELSE IF dests[i] = None
  THEN LET rest == CopyLoop(files_data, dests, fails_at, i + 1)
       IN [rest EXCEPT !.skipped = <<files_data[i].relative_path_from_extracted>> \o @]
  ELSE IF i = fails_at THEN [ok |-> FALSE, copied |-> <<>>, skipped |-> <<>>]
  ELSE LET rest == CopyLoop(files_data, dests, fails_at, i + 1)
       IN [rest EXCEPT !.copied = <<[src |-> files_data[i].absolute_path, dest |-> dests[i]]>> \o @]

\* copy_extracted_files_to_repo (src/Apolo.py): ok is the value returned,
\* copied the files copied with their destinations below repo_path, skipped
\* the files warned about for having no destination.
copy_extracted_files_to_repo(temp_dir_, repo_path, schema_name_, files_data, fails_at) ==
  LET schema_lower == Lower(schema_name_)
      dests == ListOf([i \in 1..Len(files_data) |-> DestRelativePath(files_data[i], schema_lower)])
  IN CopyLoop(files_data, dests, fails_at, 1)

\* copy_extracted_files_to_repo of the earlier revision.
copy_extracted_files_to_repo_steamlit(temp_dir_, repo_path, schema_name_, files_data, fails_at) ==
  LET schema_lower == Lower(schema_name_)
      dests == ListOf([i \in 1..Len(files_data) |-> DestRelativePath_steamlit(files_data[i], schema_lower)])
  IN CopyLoop(files_data, dests, fails_at, 1)

\* get_schema_directories(repo_path): plsql_is_dir tells whether
\* repo_path/database/plsql is a directory, plsql_dirs are the names of the
\* directories in it.
get_schema_directories(repo_path, plsql_is_dir, plsql_dirs) ==
  IF repo_path = "" THEN <<>>
  ELSE IF ~plsql_is_dir THEN <<>>
  ELSE LET schema_list == SelectSeq(plsql_dirs, LAMBDA d : ~StartsWith(d, "."))
           n == Len(schema_list)
       IN SortBy(schema_list, [i \in 1..n |-> [j \in 1..n |-> StrLess(schema_list[i], schema_list[j])]])

\* ------------------------------------------------------------------------
\* The Streamlit script, level 1: upload, extraction and analysis
\* ------------------------------------------------------------------------
\* Streamlit runs the whole script once per user event.  ss is
\* st.session_state, a record of its keys; disk is the temporary directory
\* temp_dir names: whether it exists, the archive stored in it and the files
\* extracted into it, in the order the file system lists them.

\* The archives a user can upload are built from these files.
ArchivePaths ==
  {"A/1_p.pkb", "A/2_u.fnc", "A/3_q.PRC", "B/x.fmb", "Report.SQL", "rollback/u/1_r.prc"}

\* The lines of each of them, as readlines() returns them.
ArchiveFileLines ==
  [q \in ArchivePaths |->
     IF q = "A/1_p.pkb" THEN <<"END p;\n", "/\n">>
     ELSE IF q = "A/3_q.PRC" THEN <<"BEGIN\n", "end;  \n">>
     ELSE IF q = "rollback/u/1_r.prc" THEN <<"END r;\n", "-- c\n">>
     ELSE IF q = "Report.SQL" THEN <<"END;\n">>
     ELSE <<>>]

\* The files whose open() raises.
UnreadableFiles == {"A/2_u.fnc"}

\* The value of st.file_uploader when no file is chosen.
NoUpload == [name |-> None, walk |-> <<>>, valid |-> FALSE, size |-> 0]

\* No temporary directory.
NoDisk == [exists |-> FALSE, archive |-> NoUpload, tree |-> <<>>]

\* tempfile.mkdtemp: a new empty directory.
NewDisk == [exists |-> TRUE, archive |-> NoUpload, tree |-> <<>>]

\* st.session_state after the initialisation at the top of the script.
SessionDefaults ==
  [ level |-> 1,
    temp_dir |-> None,
    archive_extracted |-> FALSE,
    analysis_done |-> FALSE,
    findings |-> <<>>,
    ordered_files_list |-> <<>>,
    temp_extracted_files_data |-> <<>>,
    last_uploaded_filename |-> None,
    repo_path_input |-> "",
    schema_directories |-> <<>>,
    selected_schema |-> None,
    branch_name_input |-> "",
    cleanup_button_clicked |-> FALSE ]

RECURSIVE TotalIssues(_)
\* sum(len(issues) for issues in findings.values())
TotalIssues(findings) ==
  IF findings = <<>> THEN 0 ELSE Len(findings[1].issues) + TotalIssues(Tail(findings))

\* The file of the archive that os.path.join(temp_dir, f_rel_path) names.
ExtractedPath(f_rel_path) ==
  IF StartsWith(f_rel_path, "./") THEN SubSeq(f_rel_path, 3, Len(f_rel_path)) ELSE f_rel_path

\* findings[f_rel_path] = analyze_file(full_path, ext), with
\* ext = os.path.splitext(f_rel_path)[1].lower().
AnalyzeOne(app_, f_rel_path) ==
  LET full_path == TempDirName \o "/" \o f_rel_path
      file_ext == Lower(PathSuffix(f_rel_path))
      readable == ExtractedPath(f_rel_path) \notin UnreadableFiles
      content == ArchiveFileLines[ExtractedPath(f_rel_path)]
  IN IF app_ = "Apolo" THEN analyze_file(full_path, file_ext, readable, content)
     ELSE analyze_file_steamlit(full_path, file_ext, readable, content)

\* AnalyzeFiles where a file that cannot be read ends the loop and leaves
\* no findings.
AnalyzeFiles_abort_on_read_error(app_, ordered) ==
  IF \E i \in 1..Len(ordered) : ExtractedPath(ordered[i]) \in UnreadableFiles THEN <<>>
  ELSE ListOf([i \in 1..Len(ordered) |-> [path |-> ordered[i], issues |-> AnalyzeOne(app_, ordered[i])]])

\* The dict findings the analysis loop builds, in insertion order.
AnalyzeFiles(app_, ordered) ==
  ListOf([i \in 1..Len(ordered) |-> [path |-> ordered[i], issues |-> AnalyzeOne(app_, ordered[i])]])

\* The condition under which the upload gets a new temporary directory and
\* the analysis state is reset.
NeedsReset(ss, disk, uploaded_file) ==
  \/ ss.temp_dir = None
  \/ ~disk.exists
  \/ /\ ss.last_uploaded_filename \notin {None, ""}
     /\ ss.last_uploaded_filename # uploaded_file.name

\* The session after the reset.  A failure of rmtree on the previous
\* directory is only warned about: mkdtemp gives a new directory anyway.
ResetForUpload(ss, uploaded_file) ==
  [ss EXCEPT !.temp_dir = TempDirName,
             !.archive_extracted = FALSE,
             !.analysis_done = FALSE,
             !.findings = <<>>,
             !.ordered_files_list = <<>>,
             !.temp_extracted_files_data = <<>>,
             !.last_uploaded_filename = uploaded_file.name]

\* The temporary directory after the upload is written to archive_path:
\* only if no file is there, or the one there has another size.
StoreArchive(ss, disk, uploaded_file) ==
  IF \/ disk.archive.name # uploaded_file.name
     \/ /\ ss.last_uploaded_filename \notin {None, ""}
        /\ ss.last_uploaded_filename = uploaded_file.name
        /\ disk.archive.size # uploaded_file.size
  THEN [disk EXCEPT !.archive = uploaded_file]
  ELSE disk

\* The session once the two collectors have returned data and ordered,
\* src/Apolo.py: the analysis loop runs unless no candidate file was found.
Analyzed(ss, data, ordered) ==
  IF data = <<>>
  THEN [ss EXCEPT !.archive_extracted = TRUE,
                  !.temp_extracted_files_data = data,
                  !.ordered_files_list = ordered,
                  !.analysis_done = TRUE,
                  !.findings = <<>>]
  ELSE [ss EXCEPT !.archive_extracted = TRUE,
                  !.temp_extracted_files_data = data,
                  !.ordered_files_list = ordered,
                  !.findings = AnalyzeFiles("Apolo", ordered),
                  !.analysis_done = TRUE]

\* The same in the earlier revision, which collects the candidate files
\* only after the analysis of a list of files that is not empty.
Analyzed_steamlit(ss, tree, ordered) ==
  IF ordered = <<>>
  THEN [ss EXCEPT !.archive_extracted = TRUE,
                  !.analysis_done = TRUE,
                  !.findings = <<>>,
                  !.ordered_files_list = <<>>,
                  !.temp_extracted_files_data = <<>>]
  ELSE [ss EXCEPT !.archive_extracted = TRUE,
                  !.findings = AnalyzeFiles("steamlit", ordered),
                  !.ordered_files_list = ordered,
                  !.temp_extracted_files_data = collect_files_for_manifest_steamlit(tree),
                  !.analysis_done = TRUE]

\* Collection and analysis after a successful extraction into tree.
CollectAndAnalyze(app_, ss, tree) ==
  IF app_ = "Apolo"
  THEN Analyzed(ss, collect_files_for_manifest(tree), collect_and_order_files(tree))
  ELSE Analyzed_steamlit(ss, tree, collect_and_order_files(tree))

\* Level1Transition going to level 2 after every completed analysis,
\* whatever it found.
Level1Transition_whatever_found(app_, ss) ==
  IF ~ss.analysis_done THEN ss
  ELSE [ss EXCEPT !.level = 2]

\* The level after the report of a completed analysis.
Level1Transition(app_, ss) ==
  IF ~ss.analysis_done THEN ss
  ELSE IF app_ = "Apolo"
  THEN IF TotalIssues(ss.findings) = 0 /\ ss.temp_extracted_files_data # <<>>
       THEN [ss EXCEPT !.level = 2]
       ELSE [ss EXCEPT !.level = 1]
  ELSE IF TotalIssues(ss.findings) = 0 THEN [ss EXCEPT !.level = 2]
       ELSE [ss EXCEPT !.level = 1]

\* Extraction of the archive stored in disk and what follows it.
\* extract_archive raises on a file that is not a valid zip archive, which
\* leaves archive_extracted false and sets analysis_done false.
ExtractStored(app_, ss, disk) ==
  IF ~disk.archive.valid
  THEN [ss |-> [ss EXCEPT !.analysis_done = FALSE], disk |-> disk]
  ELSE [ss |-> Level1Transition(app_, CollectAndAnalyze(app_, ss, disk.archive.walk)),
        disk |-> [disk EXCEPT !.tree = disk.archive.walk]]

\* The level-1 block after the reset, if any: extraction and analysis
\* unless the archive is extracted already, then the report.
AfterReset(app_, ss, disk, uploaded_file) ==
  IF ss.archive_extracted THEN [ss |-> Level1Transition(app_, ss), disk |-> disk]
  ELSE ExtractStored(app_, ss, StoreArchive(ss, disk, uploaded_file))

\* The level-1 block of the script with uploaded_file the value of the
\* uploader.
Level1Block(app_, ss, disk, uploaded_file) ==
  IF uploaded_file.name = None THEN [ss |-> ss, disk |-> disk]
  ELSE AfterReset(app_,
                  IF NeedsReset(ss, disk, uploaded_file) THEN ResetForUpload(ss, uploaded_file) ELSE ss,
                  IF NeedsReset(ss, disk, uploaded_file) THEN NewDisk ELSE disk,
                  uploaded_file)

\* ------------------------------------------------------------------------
\* The Streamlit script, levels 2 and 3: inputs and the execute button
\* ------------------------------------------------------------------------

\* MaxArchiveFiles: the largest number of files in an uploaded archive.
MaxArchiveFiles == 2

\* The directories os.path.isdir accepts as repository path.
RepoDirs == {"repo"}

\* The directories below <repo>/database/plsql, as iterdir lists them.
PlsqlDirs == [r \in RepoDirs |-> <<"HR", "DBAPER", ".old">>]

\* x in xs, for a list xs.
InList(x, xs) == \E i \in 1..Len(xs) : xs[i] = x

\* xs.index(x) for x in xs; the display options have the placeholder at
\* index 0 and xs[i] at index i.
IndexInList(x, xs) == CHOOSE i \in 1..Len(xs) : xs[i] = x /\ \A j \in 1..(i - 1) : xs[j] # x

\* The user event a run of the script answers: kind names the widget
\* ("none" for a rerun), text the text typed, index the option chosen.
Event(kind, text, index) == [kind |-> kind, text |-> text, index |-> index]

\* The state of the widget "schema_select_box": the index and options it
\* was last built with, and the value it holds (live: it holds one).
NoBox == [live |-> FALSE, index |-> 0, options |-> <<>>, value |-> 0]

\* What one press of the execute button did (started false: it was not
\* pressed, or the inputs were rejected).
NoProcess ==
  [ started |-> FALSE,
    branch_name |-> None,
    schema |-> None,
    steps |-> <<>>,
    results |-> <<>>,
    commands |-> <<>>,
    clean_failed |-> FALSE,
    branch |-> None,
    copied |-> <<>>,
    skipped |-> <<>>,
    manifest_path |-> None,
    manifest_written |-> FALSE,
    manifest_file |-> None,
    completed |-> FALSE ]

\* The outcomes of the operating system and git under one press of the
\* execute button: the git command that fails ("none": none), whether git
\* clean fails, whether the branch exists, the index of the file whose
\* copy fails (0: none), whether manifest.txt exists, whether rmtree of
\* its directory fails and whether writing it fails.  Outcomes that differ
\* only in a step never reached are listed once.
ProcessOutcomes(n) ==
  { o \in [ git_failure : {"none", "checkout main", "pull", "checkout"},
            clean_fails : BOOLEAN,
            branch_exists : BOOLEAN,
            fails_at : 0..n,
            manifest_exists : BOOLEAN,
            rmtree_fails : BOOLEAN,
            write_fails : BOOLEAN ] :
      /\ o.git_failure \in {"checkout main", "pull"} => ~o.clean_fails /\ ~o.branch_exists
      /\ o.git_failure # "none" => o.fails_at = 0
      /\ o.git_failure # "none" \/ o.fails_at # 0 =>
           ~o.manifest_exists /\ ~o.rmtree_fails /\ ~o.write_fails
      /\ ~o.manifest_exists => ~o.rmtree_fails }

\* The outcome in which nothing fails.
NoFailure ==
  [ git_failure |-> "none", clean_fails |-> FALSE, branch_exists |-> FALSE, fails_at |-> 0,
    manifest_exists |-> FALSE, rmtree_fails |-> FALSE, write_fails |-> FALSE ]

\* What the outcome o means for each git command.
GitOutcome(o) ==
  [ checkout_main |-> o.git_failure # "checkout main",
    pull |-> o.git_failure # "pull",
    clean |-> ~o.clean_fails,
    branch_exists |-> o.branch_exists,
    checkout_branch |-> o.git_failure # "checkout" ]

\* The process after create_and_checkout_branch returned branched.
ProcessBegun(branch_name, schema, o, branched) ==
  [NoProcess EXCEPT !.started = TRUE,
                    !.branch_name = branch_name,
                    !.schema = schema,
                    !.steps = <<"create_and_checkout_branch">>,
                    !.results = <<branched.ok>>,
                    !.commands = branched.commands,
                    !.clean_failed = o.clean_fails /\ Len(branched.commands) > 2,
                    !.branch = branched.branch]

\* The process after copy_extracted_files_to_repo returned copy.
ProcessCopied(begun, copy) ==
  [begun EXCEPT !.steps = @ \o <<"copy_extracted_files_to_repo">>,
                !.results = @ \o <<copy.ok>>,
                !.copied = copy.copied,
                !.skipped = copy.skipped]

\* The process after generate_and_write_manifest returned written.
ProcessWritten(copying, branch_name, schema, written) ==
  [copying EXCEPT !.steps = @ \o <<"generate_and_write_manifest">>,
                  !.results = @ \o <<written.ok>>,
                  !.manifest_path = PathJoin(<<"database", "data", Upper(schema),
                                               Upper(branch_name), "manifest.txt">>),
                  !.manifest_written = written.wrote,
                  !.manifest_file = written.file,
                  !.completed = written.ok]

\* Third step of the process: the manifest.
ManifestStep(app_, repo_path, branch_name, schema, files_data, o, copying) ==
  ProcessWritten(copying, branch_name, schema,
    IF app_ = "Apolo"
    THEN generate_and_write_manifest(repo_path, branch_name, schema, files_data,
           IF o.manifest_exists THEN "<old manifest>" ELSE None, o.rmtree_fails, o.write_fails)
    ELSE generate_and_write_manifest_steamlit(repo_path, branch_name, schema, files_data,
           IF o.manifest_exists THEN "<old manifest>" ELSE None, o.rmtree_fails, o.write_fails))

\* CopyStep going on to the manifest whatever the copy returned.
CopyStep_manifest_always(app_, repo_path, branch_name, schema, files_data, o, begun, copy) ==
  ManifestStep(app_, repo_path, branch_name, schema, files_data, o, ProcessCopied(begun, copy))

\* Second step of the process: the copy, and the manifest if it returned
\* true.
CopyStep(app_, repo_path, branch_name, schema, files_data, o, begun, copy) ==
  IF ~copy.ok THEN ProcessCopied(begun, copy)
  ELSE ManifestStep(app_, repo_path, branch_name, schema, files_data, o, ProcessCopied(begun, copy))

\* First step of the process: the branch, and the copy if it returned true.
BranchStep(app_, repo_path, branch_name, schema, files_data, o, branched) ==
  IF ~branched.ok THEN ProcessBegun(branch_name, schema, o, branched)
  ELSE CopyStep(app_, repo_path, branch_name, schema, files_data, o,
                ProcessBegun(branch_name, schema, o, branched),
                IF app_ = "Apolo"
                THEN copy_extracted_files_to_repo(TempDirName, repo_path, schema, files_data, o.fails_at)
                ELSE copy_extracted_files_to_repo_steamlit(TempDirName, repo_path, schema, files_data,
                                                           o.fails_at))

\* The body of the execute button once the inputs passed the check made
\* before executing: branch, then copy, then manifest, each only if the
\* one before returned true.
RunProcess(app_, repo_path, branch_name, schema, files_data, o) ==
  BranchStep(app_, repo_path, branch_name, schema, files_data, o,
             create_and_checkout_branch(repo_path, branch_name, GitOutcome(o)))

\* The check of the inputs made when the execute button is pressed.
ExecuteAccepted(app_, repo_path, branch_name, schema, files_data_for_processing) ==
  /\ repo_path # ""
  /\ repo_path \in RepoDirs
  /\ schema \notin {None, ""}
  /\ StartsWith(branch_name, "F_")
  /\ ~Contains(" ", branch_name)
  /\ (app_ = "Apolo" => files_data_for_processing # <<>>)

\* The body of the execute button for the inputs read from the session.
\* A rejected check sends the session back to level 2 and reruns.
ExecuteInputs(app_, ss, box, o, repo_path, branch_name) ==
  IF ~ExecuteAccepted(app_, repo_path, branch_name, ss.selected_schema, ss.temp_extracted_files_data)
  THEN [ss |-> [ss EXCEPT !.level = 2], box |-> box, box_rendered |-> TRUE, rerun |-> TRUE,
        process |-> NoProcess]
  ELSE [ss |-> ss, box |-> box, box_rendered |-> TRUE, rerun |-> FALSE,
        process |-> RunProcess(app_, repo_path, branch_name, ss.selected_schema,
                               ss.temp_extracted_files_data, o)]

\* The body of the execute button.
ExecuteButton(app_, ss, box, o) ==
  ExecuteInputs(app_, ss, box, o, Strip(ss.repo_path_input), Upper(Strip(ss.branch_name_input)))

\* The value st.selectbox returns.  A choice of the user is returned as it
\* is; a widget built with the same index and options as before returns
\* the value it holds; one built with other arguments returns the new index
\* or, where the key alone identifies the widget (box_keeps), the value it
\* holds if that is still an option.
SelectboxValue(box, ev, index_of_selection, schema_options, box_keeps) ==
  IF ev.kind = "schema" THEN ev.index
  ELSE IF ~box.live THEN index_of_selection
  ELSE IF box.index = index_of_selection /\ box.options = schema_options THEN box.value
  ELSE IF box_keeps /\ box.value <= Len(schema_options) THEN box.value
  ELSE index_of_selection

\* current_schema_dirs for the repository path typed.
CurrentSchemaDirs(repo_path) ==
  IF repo_path # "" /\ repo_path \in RepoDirs
  THEN get_schema_directories(repo_path, TRUE, PlsqlDirs[repo_path])
  ELSE <<>>

\* index_of_selection: the display index of the schema to preselect.
IndexOfSelection(ss) ==
  IF InList(ss.selected_schema, ss.schema_directories)
  THEN IndexInList(ss.selected_schema, ss.schema_directories)
  ELSE IF ss.level = 2 /\ InList("DBAPER", ss.schema_directories)
  THEN IndexInList("DBAPER", ss.schema_directories)
  ELSE 0

\* branch_name_valid_format without the test for spaces.
BranchNameValidFormat_spaces_allowed(branch_name_clean) ==
  /\ StartsWith(Upper(branch_name_clean), "F_")
  /\ Len(branch_name_clean) > 2

\* branch_name_valid_format
BranchNameValidFormat(branch_name_clean) ==
  /\ StartsWith(Upper(branch_name_clean), "F_")
  /\ ~Contains(" ", branch_name_clean)
  /\ Len(branch_name_clean) > 2

\* level_2_inputs_valid
Level2InputsValid(ss, repo_path) ==
  /\ repo_path # "" /\ repo_path \in RepoDirs
  /\ ss.selected_schema # None
  /\ BranchNameValidFormat(Strip(ss.branch_name_input))

\* level_1_no_issues and files_for_processing_found (the earlier revision
\* does not ask for the latter).
Level1Passed(app_, ss) ==
  /\ ss.analysis_done /\ TotalIssues(ss.findings) = 0
  /\ (app_ = "Apolo" => ss.temp_extracted_files_data # <<>>)

\* files_for_processing_found
FilesFound(app_, ss) == app_ = "Apolo" => ss.temp_extracted_files_data # <<>>

\* The end of the block once the inputs are read and checked: the
\* transitions between levels 2 and 3, then the execute button.
Level2Transition(app_, ss, box, ev, o, level_2_inputs_valid) ==
  IF Level1Passed(app_, ss) /\ level_2_inputs_valid /\ ss.level < 3
  THEN [ss |-> [ss EXCEPT !.level = 3], box |-> box, box_rendered |-> TRUE, rerun |-> TRUE,
        process |-> NoProcess]
  ELSE IF (~level_2_inputs_valid \/ ~FilesFound(app_, ss)) /\ ss.level = 3
  THEN [ss |-> [ss EXCEPT !.level = 2], box |-> box, box_rendered |-> TRUE, rerun |-> TRUE,
        process |-> NoProcess]
  ELSE IF ev.kind = "execute" /\ ss.level = 3 THEN ExecuteButton(app_, ss, box, o)
  ELSE [ss |-> ss, box |-> box, box_rendered |-> TRUE, rerun |-> FALSE, process |-> NoProcess]

\* The block once the selectbox returned selected_schema_index: the schema
\* and the branch name are stored.
Level2Selected(app_, ss, box, ev, o, index_of_selection, selected_schema_index, repo_path) ==
  Level2Transition(app_,
    [ss EXCEPT !.selected_schema = IF selected_schema_index > 0
                                   THEN ss.schema_directories[selected_schema_index] ELSE None,
               !.branch_name_input = IF ev.kind = "branch_name" THEN ev.text ELSE @],
    [live |-> TRUE, index |-> index_of_selection, options |-> ss.schema_directories,
     value |-> selected_schema_index],
    ev, o,
    Level2InputsValid(
      [ss EXCEPT !.selected_schema = IF selected_schema_index > 0
                                     THEN ss.schema_directories[selected_schema_index] ELSE None,
                 !.branch_name_input = IF ev.kind = "branch_name" THEN ev.text ELSE @],
      repo_path))

\* The block once the schema directories are unchanged: the selectbox.
Level2Selectbox(app_, ss, box, ev, box_keeps, o, index_of_selection, repo_path) ==
  Level2Selected(app_, ss, box, ev, o, index_of_selection,
                 SelectboxValue(box, ev, index_of_selection, ss.schema_directories, box_keeps),
                 repo_path)

\* The block once the repository path is read: a change of the schema
\* directories is stored and reruns the script.
Level2Schemas(app_, ss, box, ev, box_keeps, o, repo_path, current_schema_dirs) ==
  IF current_schema_dirs # ss.schema_directories
  THEN [ss |-> [ss EXCEPT !.schema_directories = current_schema_dirs,
                          !.selected_schema =
                             IF InList(@, current_schema_dirs) THEN @
                             ELSE IF InList("DBAPER", current_schema_dirs) THEN "DBAPER"
                             ELSE None],
        box |-> box, box_rendered |-> FALSE, rerun |-> TRUE, process |-> NoProcess]
  ELSE Level2Selectbox(app_, ss, box, ev, box_keeps, o, IndexOfSelection(ss), repo_path)

\* The block once the text input of the repository path returned.
Level2RepoPath(app_, ss, box, ev, box_keeps, o, repo_path) ==
  Level2Schemas(app_, ss, box, ev, box_keeps, o, repo_path, CurrentSchemaDirs(repo_path))

\* The block of the script for level >= 2.  rerun: st.rerun() ended the run.
Level2Block(app_, ss, box, ev, box_keeps, o) ==
  Level2RepoPath(app_,
                 [ss EXCEPT !.repo_path_input = IF ev.kind = "repo_path" THEN ev.text ELSE @],
                 box, ev, box_keeps, o,
                 Strip(IF ev.kind = "repo_path" THEN ev.text ELSE ss.repo_path_input))

\* ------------------------------------------------------------------------
\* The Streamlit script: cleanup block and one whole run
\* ------------------------------------------------------------------------

\* The session after the keys of keys_to_clear are deleted: the top of the
\* next run initialises them again; the level-2 inputs are kept.
ClearedSession(ss) ==
  [SessionDefaults EXCEPT !.repo_path_input = ss.repo_path_input,
                          !.schema_directories = ss.schema_directories,
                          !.selected_schema = ss.selected_schema,
                          !.branch_name_input = ss.branch_name_input,
                          !.cleanup_button_clicked = FALSE]

\* The cleanup block.  A click only sets cleanup_button_clicked and reruns;
\* the run after it removes the directory and clears the keys, unless
\* rmtree raises (rmtree_fails).
CleanupBlock(ss, disk, ev, rmtree_fails) ==
  IF ss.temp_dir = None \/ ~disk.exists
  THEN [ss |-> ss, disk |-> disk, rerun |-> FALSE, cleaned |-> FALSE]
  ELSE IF ss.cleanup_button_clicked /\ ~rmtree_fails
  THEN [ss |-> ClearedSession(ss), disk |-> NoDisk, rerun |-> TRUE, cleaned |-> TRUE]
  ELSE LET ss1 == [ss EXCEPT !.cleanup_button_clicked = FALSE]
       IN IF ev.kind = "cleanup"
          THEN [ss |-> [ss1 EXCEPT !.cleanup_button_clicked = TRUE], disk |-> disk, rerun |-> TRUE,
                cleaned |-> FALSE]
          ELSE [ss |-> ss1, disk |-> disk, rerun |-> FALSE, cleaned |-> FALSE]

\* What the operating system, git and Streamlit decide during one run:
\* box_keeps (see SelectboxValue), rmtree_fails (cleanup) and the outcome
\* proc of the process.
RunOutcome(box_keeps, rmtree_fails, proc) ==
  [box_keeps |-> box_keeps, rmtree_fails |-> rmtree_fails, proc |-> proc]

\* The result of a run: the widget states after it are those of the
\* widgets it rendered; a complete run forgets the others.
RunResult(uploader_rendered, second, third, uploaded_file, box) ==
  [ ss |-> third.ss,
    disk |-> third.disk,
    process |-> second.process,
    rerun |-> third.rerun,
    cleaned |-> third.cleaned,
    uploader |-> IF uploader_rendered \/ third.rerun THEN uploaded_file ELSE NoUpload,
    box |-> IF second.box_rendered THEN second.box
            ELSE IF third.rerun THEN box ELSE NoBox,
    uploader_rendered |-> uploader_rendered,
    box_rendered |-> second.box_rendered ]

\* The run from the cleanup block on; second is what the block of level
\* >= 2 returned.
FromCleanup(uploader_rendered, disk, second, uploaded_file, box, ev, o) ==
  RunResult(uploader_rendered, second,
            IF second.rerun THEN [ss |-> second.ss, disk |-> disk, rerun |-> TRUE, cleaned |-> FALSE]
            ELSE CleanupBlock(second.ss, disk, ev, o.rmtree_fails),
            uploaded_file, box)

\* The run from the block of level >= 2 on; first is what the level-1
\* block returned.
FromLevel2(app_, uploader_rendered, first, uploaded_file, box, ev, o) ==
  FromCleanup(uploader_rendered, first.disk,
              IF first.ss.level >= 2
              THEN Level2Block(app_, first.ss, box, ev, o.box_keeps, o.proc)
              ELSE [ss |-> first.ss, box |-> box, box_rendered |-> FALSE, rerun |-> FALSE,
                    process |-> NoProcess],
              uploaded_file, box, ev, o)

\* One run of the script from top to bottom: the level-1 block if the
\* level is 1, then the block of level >= 2 if the level is (now) at least
\* 2, then the cleanup block; st.rerun() skips what follows it.
ScriptRun(app_, ss, disk, uploaded_file, box, ev, o) ==
  FromLevel2(app_, ss.level = 1,
             IF ss.level = 1 THEN Level1Block(app_, ss, disk, uploaded_file)
             ELSE [ss |-> ss, disk |-> disk],
             uploaded_file, box, ev, o)

\* The widget states the run after st.rerun() starts with: Streamlit
\* either keeps the widgets that the interrupted run r did not render, or
\* forgets them as it does after a complete run.
WidgetsAfterRerun(r) ==
  { [uploader |-> r.uploader, box |-> r.box],
    [uploader |-> IF r.uploader_rendered THEN r.uploader ELSE NoUpload,
     box |-> IF r.box_rendered THEN r.box ELSE NoBox] }

\* The outcomes that matter to the run after st.rerun().
RerunOutcomes(r) ==
  { RunOutcome(box_keeps, rmtree_fails, NoFailure) :
      box_keeps \in IF r.box.live THEN BOOLEAN ELSE {FALSE},
      rmtree_fails \in IF r.ss.cleanup_button_clicked THEN BOOLEAN ELSE {FALSE} }

RECURSIVE RunToEnd(_, _, _, _, _, _, _)
RECURSIVE Reruns(_, _)
\* The runs Streamlit makes after the run r: none if r is complete, else
\* one more run without event, and so on.  The result is the set of
\* possible last runs, each with the process of r and with cleaned true
\* if r or a run after it cleaned up.
Reruns(app_, r) ==
  IF ~r.rerun THEN {r}
  ELSE UNION { { [last EXCEPT !.process = r.process, !.cleaned = r.cleaned \/ @] :
                   last \in RunToEnd(app_, r.ss, r.disk, w.uploader, w.box, Event("none", "", 0), o) } :
                 w \in WidgetsAfterRerun(r), o \in RerunOutcomes(r) }

\* The runs Streamlit makes for the event ev: the run answering it and the
\* runs that st.rerun() asks for.
RunToEnd(app_, ss, disk, uploaded_file, box, ev, o) ==
  Reruns(app_, ScriptRun(app_, ss, disk, uploaded_file, box, ev, o))

\* ------------------------------------------------------------------------
\* State
\* ------------------------------------------------------------------------

VARIABLES
  all_files_data,    \* the list of candidate files handed to the generator
  schema_name,       \* the schema name handed to the generator
  last_call,         \* the last function applied: "none", "generate", "write"
  revision,          \* the revision it belongs to: "Apolo", "steamlit", None
  manifest_content,  \* the text returned by generate_manifest_content
  manifest_entries,  \* its content_lines, each with the file it was written for
  manifest_file,     \* content of manifest.txt at manifest_path, None: no file
  manifest_written,  \* the last call opened and wrote manifest.txt
  write_result,      \* value returned by generate_and_write_manifest
  lines,             \* the lines of the file handed to the validator
  ext,               \* the extension handed to the validator
  validator_call,    \* the validator function applied, "none" before
  issues,            \* the list it returned
  file_data_1,       \* a file handed to get_manifest_category
  file_data_2,       \* a second file handed to it
  classifier_call,   \* the revision whose classifier was applied, "none" before
  category_1,        \* the category returned for file_data_1
  category_2,        \* the category returned for file_data_2
  app,               \* the revision of the script the session runs
  session_state,     \* st.session_state
  uploader_lvl1,     \* the file held by the uploader widget
  schema_select_box, \* the state of the schema selectbox widget
  temp_disk,         \* the temporary directory of the session
  process,           \* what the execute button did in the last run
  upload_count,      \* the number of files the user has chosen so far
  cleanup_done,      \* the runs of the last event removed temp_dir and cleared the keys
  tree_walk,         \* the files of the directory handed to a collector
  collector_call,    \* the collector applied, "none" before
  collector_files_data, \* the list collect_files_for_manifest returned
  collector_ordered, \* ordered_files_list as collect_and_order_files returned it
  copy_files_data,   \* the list handed to copy_extracted_files_to_repo
  copy_schema,       \* the schema name handed to it
  copy_fails_at,     \* the index of the file whose copy raises, 0: none
  copy_call,         \* the revision whose copy function was applied, "none" before
  copy_outcome       \* what it returned and did

manifestVars == <<all_files_data, schema_name, last_call, revision, manifest_content,
                  manifest_entries, manifest_file, manifest_written, write_result>>

validatorVars == <<lines, ext, validator_call, issues>>

classifierVars == <<file_data_1, file_data_2, classifier_call, category_1, category_2>>

wizardVars == <<app, session_state, uploader_lvl1, schema_select_box, temp_disk, process,
                upload_count, cleanup_done>>

collectorVars == <<tree_walk, collector_call, collector_files_data, collector_ordered>>

copyVars == <<copy_files_data, copy_schema, copy_fails_at, copy_call, copy_outcome>>

vars == <<manifestVars, validatorVars, classifierVars, wizardVars, collectorVars, copyVars>>

\* What a call of a manifest function, of the validator and of the
\* classifier leaves alone.
ManifestFrame == UNCHANGED <<validatorVars, classifierVars, wizardVars, collectorVars, copyVars>>

ValidatorFrame == UNCHANGED <<manifestVars, classifierVars, wizardVars, collectorVars, copyVars>>

ClassifierFrame == UNCHANGED <<manifestVars, validatorVars, wizardVars, collectorVars, copyVars>>

WizardFrame == UNCHANGED <<manifestVars, validatorVars, classifierVars, collectorVars, copyVars>>

CollectorFrame == UNCHANGED <<manifestVars, validatorVars, classifierVars, wizardVars, copyVars>>

CopyFrame == UNCHANGED <<manifestVars, validatorVars, classifierVars, wizardVars, collectorVars>>

\* The state of the manifest functions when none of them is under study.
ManifestIdle ==
  /\ all_files_data = <<>>
  /\ schema_name = None
  /\ last_call = "none"
  /\ revision = None
  /\ manifest_content = None
  /\ manifest_entries = <<>>
  /\ manifest_file = None
  /\ manifest_written = FALSE
  /\ write_result = None

\* The state of the validator when it is not under study.
ValidatorIdle ==
  /\ lines = <<>>
  /\ ext = ""
  /\ validator_call = "none"
  /\ issues = None

\* The state of the classifier when it is not under study.
ClassifierIdle ==
  /\ file_data_1 = None
  /\ file_data_2 = None
  /\ classifier_call = "none"
  /\ category_1 = None
  /\ category_2 = None

\* The state of the wizard when no session is under study.
WizardIdle ==
  /\ app = None
  /\ session_state = SessionDefaults
  /\ uploader_lvl1 = NoUpload
  /\ schema_select_box = NoBox
  /\ temp_disk = NoDisk
  /\ process = NoProcess
  /\ upload_count = 0
  /\ cleanup_done = FALSE

\* The state of the collectors when they are not under study.
CollectorIdle ==
  /\ tree_walk = <<>>
  /\ collector_call = "none"
  /\ collector_files_data = <<>>
  /\ collector_ordered = <<>>

\* The state of the copy function when it is not under study.
CopyIdle ==
  /\ copy_files_data = <<>>
  /\ copy_schema = None
  /\ copy_fails_at = 0
  /\ copy_call = "none"
  /\ copy_outcome = None

\* ------------------------------------------------------------------------
\* The manifest generator applied to bounded inputs
\* ------------------------------------------------------------------------

\* Relative paths of the files an extracted archive may hold.
ManifestPaths ==
  { "A/10_create_table.sql", "A/02_pkg.pks", "A/02_pkg.pkb", "B/02_pkg.pks",
    "B/1_f.fmb", "2_x/3_v.vw", "10_y/t.trg", "grants/1_g.pkb", "1_a/30_z/5_s.sql",
    "A/9_p.prc", "A/8_f.fnc", "A/7_v.vw", "A/6_t.trg" }

\* Schema names: directory names under database/plsql of the repository.
SchemaNames == {"HR", "Dbaper"}

\* The branch and repository of the calls; neither reaches the text.
BranchName == "F_1"

RepoPath == "repo"

\* Lists of at most n distinct relative paths.
PathLists(n) ==
  {s \in UNION {[1..k -> ManifestPaths] : k \in 0..n} :
     \A i, j \in 1..Len(s) : i # j => s[i] # s[j]}

FileDataList(paths) == [i \in 1..Len(paths) |-> FileData(paths[i])]

ManifestInit ==
  /\ all_files_data \in {FileDataList(s) : s \in PathLists(MaxFiles)}
  /\ schema_name \in SchemaNames
  /\ last_call = "none"
  /\ revision = None
  /\ manifest_content = None
  /\ manifest_entries = <<>>
  /\ manifest_file \in {None, "SCHEMA=OLD\n"}
  /\ manifest_written = FALSE
  /\ write_result = None
  /\ ValidatorIdle
  /\ ClassifierIdle
  /\ WizardIdle
  /\ CollectorIdle
  /\ CopyIdle

\* A call of generate_manifest_content of src/Apolo.py.
GenerateManifest ==
  /\ last_call = "none"
  /\ last_call' = "generate"
  /\ revision' = "Apolo"
  /\ manifest_content' = generate_manifest_content(schema_name, BranchName, all_files_data,
                                                   SQL_SPECIFIC_FOLDERS, MANIFEST_CATEGORIES)
  /\ manifest_entries' = content_entries(schema_name, BranchName, all_files_data,
                                         SQL_SPECIFIC_FOLDERS, MANIFEST_CATEGORIES)
  /\ manifest_written' = FALSE
  /\ write_result' = None
  /\ UNCHANGED <<all_files_data, schema_name, manifest_file>>
  /\ ManifestFrame

\* A call of generate_manifest_content of the earlier revision.
GenerateManifestSteamlit ==
  /\ last_call = "none"
  /\ last_call' = "generate"
  /\ revision' = "steamlit"
  /\ manifest_content' = generate_manifest_content_steamlit(schema_name, BranchName, all_files_data,
                                                            SQL_SPECIFIC_FOLDERS, MANIFEST_CATEGORIES)
  /\ manifest_entries' = content_entries_steamlit(schema_name, BranchName, all_files_data,
                                                  SQL_SPECIFIC_FOLDERS, MANIFEST_CATEGORIES)
  /\ manifest_written' = FALSE
  /\ write_result' = None
  /\ UNCHANGED <<all_files_data, schema_name, manifest_file>>
  /\ ManifestFrame

\* The state after a call of generate_and_write_manifest with outcome out.
WriteCallDone(rev, out) ==
  /\ last_call' = "write"
  /\ revision' = rev
  /\ manifest_content' = out.content
  /\ manifest_entries' = <<>>
  /\ manifest_file' = out.file
  /\ manifest_written' = out.wrote
  /\ write_result' = out.ok
  /\ UNCHANGED <<all_files_data, schema_name>>
  /\ ManifestFrame

\* A call of generate_and_write_manifest of src/Apolo.py.
WriteManifest ==
  /\ last_call = "none"
  /\ \E rmtree_fails, write_fails \in BOOLEAN :
       WriteCallDone("Apolo",
         generate_and_write_manifest(RepoPath, BranchName, schema_name, all_files_data,
                                     manifest_file, rmtree_fails, write_fails))

\* A call of generate_and_write_manifest of the earlier revision.
WriteManifestSteamlit ==
  /\ last_call = "none"
  /\ \E rmtree_fails, write_fails \in BOOLEAN :
       WriteCallDone("steamlit",
         generate_and_write_manifest_steamlit(RepoPath, BranchName, schema_name, all_files_data,
                                              manifest_file, rmtree_fails, write_fails))

ManifestNext ==
  \/ GenerateManifest
  \/ GenerateManifestSteamlit
  \/ WriteManifest
  \/ WriteManifestSteamlit

SpecManifest == ManifestInit /\ [][ManifestNext]_vars

\* ------------------------------------------------------------------------
\* The manifest generator applied to folders of several files per category
\* ------------------------------------------------------------------------

\* Relative paths with several files of one category in one folder, with
\* and without numeric prefix, and a script-like folder holding a package
\* and its body.
BlockPaths ==
  { "A/10_b.sql", "A/2_c.sql", "A/2_a.sql", "A/z.sql", "A/1_q.pks", "A/02_pkg.pkb",
    "grants/1_g.pkb", "grants/2_g.pks", "B/3_a.sql" }

BlockLists(n) ==
  {s \in UNION {[1..k -> BlockPaths] : k \in 0..n} :
     \A i, j \in 1..Len(s) : i # j => s[i] # s[j]}

ManifestBlockInit ==
  /\ all_files_data \in {FileDataList(s) : s \in BlockLists(MaxFiles)}
  /\ schema_name \in SchemaNames
  /\ last_call = "none"
  /\ revision = None
  /\ manifest_content = None
  /\ manifest_entries = <<>>
  /\ manifest_file \in {None, "SCHEMA=OLD\n"}
  /\ manifest_written = FALSE
  /\ write_result = None
  /\ ValidatorIdle
  /\ ClassifierIdle
  /\ WizardIdle
  /\ CollectorIdle
  /\ CopyIdle

SpecManifestBlock == ManifestBlockInit /\ [][ManifestNext]_vars

\* ------------------------------------------------------------------------
\* The validator applied to bounded inputs
\* ------------------------------------------------------------------------

\* The lines a file is made of; the last line of a file may lack its "\n".
FileLines ==
  { "CREATE OR REPLACE PROCEDURE p IS BEGIN NULL; END p;", "END pkg;\n", "end;  \n",
    "end ;\n", "/\n", "/", "\n", "-- c\n", "NULL;\n", "  /* c\n", " / \n" }

\* The extensions handed to the validator.
FileExts == VALID_EXTS \cup {".PKB", ".txt"}

\* The path of the file under validation.
ValidatedPath == "A/2_p"

ValidatorInit ==
  /\ lines \in UNION {[1..k -> FileLines] : k \in 0..MaxLines}
  /\ ext \in FileExts
  /\ validator_call = "none"
  /\ issues = None
  /\ ManifestIdle
  /\ ClassifierIdle
  /\ WizardIdle
  /\ CollectorIdle
  /\ CopyIdle

\* A call of check_slash_terminators(lines, ext).
CheckSlashTerminators ==
  /\ validator_call = "none"
  /\ validator_call' = "check_slash_terminators"
  /\ issues' = check_slash_terminators(lines, ext)
  /\ UNCHANGED <<lines, ext>>
  /\ ValidatorFrame

\* A call of analyze_file of src/Apolo.py on a file that holds lines;
\* reading it may raise.
AnalyzeFile ==
  /\ validator_call = "none"
  /\ \E readable \in BOOLEAN :
       /\ validator_call' = IF readable THEN "analyze_file" ELSE "analyze_file unreadable"
       /\ issues' = analyze_file(ValidatedPath \o ext, ext, readable, lines)
  /\ UNCHANGED <<lines, ext>>
  /\ ValidatorFrame

\* A call of analyze_file of the earlier revision.
AnalyzeFileSteamlit ==
  /\ validator_call = "none"
  /\ \E readable \in BOOLEAN :
       /\ validator_call' = IF readable THEN "analyze_file_steamlit"
                            ELSE "analyze_file_steamlit unreadable"
       /\ issues' = analyze_file_steamlit(ValidatedPath \o ext, ext, readable, lines)
  /\ UNCHANGED <<lines, ext>>
  /\ ValidatorFrame

ValidatorNext ==
  \/ CheckSlashTerminators
  \/ AnalyzeFile
  \/ AnalyzeFileSteamlit

SpecValidator == ValidatorInit /\ [][ValidatorNext]_vars

\* ------------------------------------------------------------------------
\* The classifier applied to pairs of files
\* ------------------------------------------------------------------------

\* Folders of the classified files: plain ones, ones whose name contains a
\* keyword of SQL_SPECIFIC_FOLDERS, nested ones, and the archive root.
ClassifiedFolders == {"", "A", "grants", "1_Scripts", "pkg/indices/x", "B/C"}

\* File names without extension; two contain a keyword of
\* SQL_SPECIFIC_FOLDERS.
ClassifiedStems == {"1_a", "tabla_x", "scripts"}

\* Extensions of the classified files: the seven with a category, .seq,
\* the two binary artefacts and one the collectors never keep.
ClassifiedExts == {".sql", ".pks", ".pkb", ".prc", ".fnc", ".vw", ".trg", ".seq", ".fmb", ".rdf", ".txt"}

\* The relative paths of the classified files.
ClassifiedPaths ==
  {PathJoin(<<d, n \o e>>) : d \in ClassifiedFolders, n \in ClassifiedStems, e \in ClassifiedExts}

ClassifierInit ==
  /\ file_data_1 \in {FileData(q) : q \in ClassifiedPaths}
  /\ file_data_2 \in {FileData(q) : q \in ClassifiedPaths}
  /\ classifier_call = "none"
  /\ category_1 = None
  /\ category_2 = None
  /\ ManifestIdle
  /\ ValidatorIdle
  /\ WizardIdle
  /\ CollectorIdle
  /\ CopyIdle

\* get_manifest_category of src/Apolo.py applied to both files.
GetManifestCategory ==
  /\ classifier_call = "none"
  /\ classifier_call' = "Apolo"
  /\ category_1' = get_manifest_category(file_data_1, MANIFEST_CATEGORIES, SQL_SPECIFIC_FOLDERS)
  /\ category_2' = get_manifest_category(file_data_2, MANIFEST_CATEGORIES, SQL_SPECIFIC_FOLDERS)
  /\ UNCHANGED <<file_data_1, file_data_2>>
  /\ ClassifierFrame

\* get_manifest_category of the earlier revision applied to both files.
GetManifestCategorySteamlit ==
  /\ classifier_call = "none"
  /\ classifier_call' = "steamlit"
  /\ category_1' = get_manifest_category_steamlit(file_data_1, MANIFEST_CATEGORIES, SQL_SPECIFIC_FOLDERS)
  /\ category_2' = get_manifest_category_steamlit(file_data_2, MANIFEST_CATEGORIES, SQL_SPECIFIC_FOLDERS)
  /\ UNCHANGED <<file_data_1, file_data_2>>
  /\ ClassifierFrame

ClassifierNext ==
  \/ GetManifestCategory
  \/ GetManifestCategorySteamlit

SpecClassifier == ClassifierInit /\ [][ClassifierNext]_vars

\* ------------------------------------------------------------------------
\* The wizard: a Streamlit session of either revision
\* ------------------------------------------------------------------------

\* MaxUploads: the largest number of files the user chooses in a session.
MaxUploads == 2

\* The revisions of the script.
Apps == {"Apolo", "steamlit"}

\* The names of the archives uploaded.
ArchiveNames == {"a.zip", "b.zip"}

\* The possible contents of an archive, as lists of files in the order
\* the file system lists them once extracted, here the order of the names.
Walks ==
  UNION {{w \in [1..k -> ArchivePaths] : \A i, j \in 1..k : i < j => StrLess(w[i], w[j])} :
           k \in 0..MaxArchiveFiles}

\* The files a user can upload: zip archives, and for each name a file
\* that is not a valid zip archive; size is the size in bytes.
Uploads ==
  {[name |-> n, walk |-> w, valid |-> TRUE, size |-> Len(w) + 1] : n \in ArchiveNames, w \in Walks}
    \cup {[name |-> n, walk |-> <<>>, valid |-> FALSE, size |-> 2] : n \in ArchiveNames}

\* The texts typed into the repository path field.
RepoPathInputs == {" repo ", "nodir"}

\* The texts typed into the branch name field.
BranchNameInputs == {"f_1 ", "F_ 1", "f_a-1"}

\* The session after the first run of the script, before any event.
Init ==
  /\ ManifestIdle
  /\ ValidatorIdle
  /\ ClassifierIdle
  /\ CollectorIdle
  /\ CopyIdle
  /\ app \in Apps
  /\ session_state = SessionDefaults
  /\ uploader_lvl1 = NoUpload
  /\ schema_select_box = NoBox
  /\ temp_disk = NoDisk
  /\ process = NoProcess
  /\ upload_count = 0
  /\ cleanup_done = FALSE

\* The runs of the script that answer the event ev, with uploaded_file in
\* the uploader: the session after the last of them.
Run(ev, uploaded_file, o) ==
  \E r \in RunToEnd(app, session_state, temp_disk, uploaded_file, schema_select_box, ev, o) :
     /\ session_state' = r.ss
     /\ temp_disk' = r.disk
     /\ process' = r.process
     /\ uploader_lvl1' = r.uploader
     /\ schema_select_box' = r.box
     /\ upload_count' = IF ev.kind = "uploader_lvl1" /\ uploaded_file # NoUpload
                         THEN upload_count + 1 ELSE upload_count
     /\ cleanup_done' = r.cleaned
     /\ UNCHANGED app
     /\ WizardFrame

\* The user chooses a file in the uploader, shown at level 1.
UploadFile ==
  /\ session_state.level = 1
  /\ upload_count < MaxUploads
  /\ \E f \in Uploads :
       Run(Event("uploader_lvl1", "", 0), f, RunOutcome(FALSE, FALSE, NoFailure))

\* The user removes the file from the uploader.
RemoveUpload ==
  /\ session_state.level = 1
  /\ uploader_lvl1 # NoUpload
  /\ Run(Event("uploader_lvl1", "", 0), NoUpload, RunOutcome(FALSE, FALSE, NoFailure))

\* The user edits the repository path, shown from level 2 on.
EditRepoPath ==
  /\ session_state.level >= 2
  /\ \E text \in RepoPathInputs :
       /\ text # session_state.repo_path_input
       /\ Run(Event("repo_path", text, 0), uploader_lvl1, RunOutcome(FALSE, FALSE, NoFailure))

\* The user chooses an option of the schema selectbox, enabled when there
\* are schema directories.
SelectSchema ==
  /\ session_state.level >= 2
  /\ session_state.schema_directories # <<>>
  /\ \E index \in 0..Len(session_state.schema_directories) :
       /\ index # schema_select_box.value
       /\ Run(Event("schema", "", index), uploader_lvl1, RunOutcome(FALSE, FALSE, NoFailure))

\* The user edits the branch name.
EditBranchName ==
  /\ session_state.level >= 2
  /\ \E text \in BranchNameInputs :
       /\ text # session_state.branch_name_input
       /\ Run(Event("branch_name", text, 0), uploader_lvl1, RunOutcome(FALSE, FALSE, NoFailure))

\* The user presses the execute button, enabled at level 3.
ClickExecute ==
  /\ session_state.level = 3
  /\ \E proc \in ProcessOutcomes(Len(session_state.temp_extracted_files_data)) :
       Run(Event("execute", "", 0), uploader_lvl1, RunOutcome(FALSE, FALSE, proc))

\* The user presses the cleanup button, shown while the temporary
\* directory exists.
ClickCleanup ==
  /\ session_state.temp_dir # None
  /\ temp_disk.exists
  /\ Run(Event("cleanup", "", 0), uploader_lvl1, RunOutcome(FALSE, FALSE, NoFailure))

Next ==
  \/ UploadFile
  \/ RemoveUpload
  \/ EditRepoPath
  \/ SelectSchema
  \/ EditBranchName
  \/ ClickExecute
  \/ ClickCleanup

Spec == Init /\ [][Next]_vars

\* ------------------------------------------------------------------------
\* Specification of the copy function (SpecCopy)
\* ------------------------------------------------------------------------

\* The files handed to copy_extracted_files_to_repo are drawn from these:
\* the seven database extensions, the two ancillary ones and one without
\* destination.
CopyPaths ==
  { "A/1_s.sql", "A/02_pkg.pks", "A/02_pkg.pkb", "grants/1_g.pkb", "p/1_p.prc", "p/2_f.fnc",
    "10_y/t.trg", "2_x/3_v.vw", "B/1_f.fmb", "B/r.rdf", "C/2_s.seq" }

\* Lists of at most n distinct paths among CopyPaths.
CopyLists(n) ==
  {s \in UNION {[1..k -> CopyPaths] : k \in 0..n} :
     \A i, j \in 1..Len(s) : i # j => s[i] # s[j]}

CopyInit ==
  /\ copy_files_data \in {FileDataList(s) : s \in CopyLists(MaxFiles)}
  /\ copy_schema \in SchemaNames
  /\ copy_fails_at \in 0..MaxFiles
  /\ copy_fails_at <= Len(copy_files_data)
  /\ copy_call = "none"
  /\ copy_outcome = None
  /\ ManifestIdle
  /\ ValidatorIdle
  /\ ClassifierIdle
  /\ WizardIdle
  /\ CollectorIdle

\* A call of copy_extracted_files_to_repo of src/Apolo.py.
CopyFiles ==
  /\ copy_call = "none"
  /\ copy_call' = "Apolo"
  /\ copy_outcome' = copy_extracted_files_to_repo(TempDirName, RepoPath, copy_schema,
                                                  copy_files_data, copy_fails_at)
  /\ UNCHANGED <<copy_files_data, copy_schema, copy_fails_at>>
  /\ CopyFrame

\* A call of copy_extracted_files_to_repo of the earlier revision.
CopyFilesSteamlit ==
  /\ copy_call = "none"
  /\ copy_call' = "steamlit"
  /\ copy_outcome' = copy_extracted_files_to_repo_steamlit(TempDirName, RepoPath, copy_schema,
                                                           copy_files_data, copy_fails_at)
  /\ UNCHANGED <<copy_files_data, copy_schema, copy_fails_at>>
  /\ CopyFrame

CopyNext ==
  \/ CopyFiles
  \/ CopyFilesSteamlit

SpecCopy == CopyInit /\ [][CopyNext]_vars

\* ------------------------------------------------------------------------
\* Specification of the collectors (SpecCollector)
\* ------------------------------------------------------------------------

\* The files of the directory handed to a collector are drawn from these.
CollectorPaths ==
  { "A/10_b.sql", "A/2_a.sql", "A/c.sql", "A/b/1_c.pks", "z.fmb",
    "rollback/1_r.sql", "rollback/u/1_r.prc", "A/Rollback_x/2_t.sql" }

\* The listings of at most n distinct files among CollectorPaths; the
\* order of a listing is the one the file system gives.
CollectorWalks(n) ==
  {s \in UNION {[1..k -> CollectorPaths] : k \in 0..n} :
     \A i, j \in 1..Len(s) : i # j => s[i] # s[j]}

CollectorInit ==
  /\ tree_walk \in CollectorWalks(MaxFiles)
  /\ collector_call = "none"
  /\ collector_files_data = <<>>
  /\ collector_ordered = <<>>
  /\ ManifestIdle
  /\ ValidatorIdle
  /\ ClassifierIdle
  /\ WizardIdle
  /\ CopyIdle

\* A call of collect_files_for_manifest of src/Apolo.py.
CollectForManifest ==
  /\ collector_call = "none"
  /\ collector_call' = "collect_files_for_manifest"
  /\ collector_files_data' = collect_files_for_manifest(tree_walk)
  /\ UNCHANGED <<tree_walk, collector_ordered>>
  /\ CollectorFrame

\* A call of collect_files_for_manifest of the earlier revision.
CollectForManifestSteamlit ==
  /\ collector_call = "none"
  /\ collector_call' = "collect_files_for_manifest_steamlit"
  /\ collector_files_data' = collect_files_for_manifest_steamlit(tree_walk)
  /\ UNCHANGED <<tree_walk, collector_ordered>>
  /\ CollectorFrame

\* A call of collect_and_order_files, the same in both revisions.
CollectAndOrder ==
  /\ collector_call = "none"
  /\ collector_call' = "collect_and_order_files"
  /\ collector_ordered' = collect_and_order_files(tree_walk)
  /\ UNCHANGED <<tree_walk, collector_files_data>>
  /\ CollectorFrame

CollectorNext ==
  \/ CollectForManifest
  \/ CollectForManifestSteamlit
  \/ CollectAndOrder

SpecCollector == CollectorInit /\ [][CollectorNext]_vars

\* ------------------------------------------------------------------------
\* Claims about the manifest generator (SpecManifest)
\* ------------------------------------------------------------------------

RECURSIVE SplitFrom(_, _, _)
\* The pieces of s from index i on between the occurrences of the
\* character sep.
SplitFrom(sep, s, i) ==
  LET j == FindFrom(sep, s, i)
  IN IF j = 0 THEN <<SubSeq(s, i, Len(s))>>
     ELSE <<SubSeq(s, i, j - 1)>> \o SplitFrom(sep, s, j + 1)

\* The lines of a text: its pieces between the occurrences of sep.
Split(sep, s) == SplitFrom(sep, s, 1)

\* The category the revision rev gives the file f.
CategoryAt(rev, f) ==
  IF rev = "Apolo" THEN get_manifest_category(f, MANIFEST_CATEGORIES, SQL_SPECIFIC_FOLDERS)
  ELSE get_manifest_category_steamlit(f, MANIFEST_CATEGORIES, SQL_SPECIFIC_FOLDERS)

\* The text the revision rev generates for the list files.
GeneratedBy(rev, files) ==
  IF rev = "Apolo"
  THEN generate_manifest_content(schema_name, BranchName, files, SQL_SPECIFIC_FOLDERS, MANIFEST_CATEGORIES)
  ELSE generate_manifest_content_steamlit(schema_name, BranchName, files, SQL_SPECIFIC_FOLDERS, MANIFEST_CATEGORIES)

\* The lists with the same multiset of elements as s.
PermutationsOf(s) == {[i \in 1..Len(s) |-> s[p[i]]] : p \in Permutations(1..Len(s))}

\* The lower-case and upper-case forms of the schema names, written out.
SchemaLower == [x \in SchemaNames |-> IF x = "HR" THEN "hr" ELSE "dbaper"]

SchemaUpper == [x \in SchemaNames |-> IF x = "HR" THEN "HR" ELSE "DBAPER"]

\* The destination folder of each category.
DestinationFolders == {"scripts", "packages", "packagesbodies", "procedures", "functions", "views", "triggers"}

\* The path line the claims C4 and C5 expect for a file of category c.
ExpectedPathLine(c, f) ==
  "database/plsql/" \o SchemaLower[schema_name] \o "/" \o c \o "/" \o f.filename_str

\* The header lines of the categories.
CategoryHeaders == {MANIFEST_CATEGORIES[i].header : i \in 1..Len(MANIFEST_CATEGORIES)}

\* No file of the input list is categorized by the revision of the call.
NothingCategorized ==
  \A i \in 1..Len(all_files_data) : CategoryAt(revision, all_files_data[i]) = None

\* C1: generate_manifest_content is order-insensitive: every permutation of
\* the input list yields the text that was returned for the input list.
C1_OrderInsensitive ==
  last_call = "generate" =>
    \A p \in PermutationsOf(all_files_data) : GeneratedBy(revision, p) = manifest_content

\* The scenario of C2: the three files of folder A, schema HR.
C2_Scenario ==
  /\ last_call = "generate"
  /\ schema_name = "HR"
  /\ Len(all_files_data) = 3
  /\ {all_files_data[i].relative_path_from_extracted : i \in 1..3}
       = {"A/10_create_table.sql", "A/02_pkg.pks", "A/02_pkg.pkb"}

\* C2 as stated: in the scenario the lines of the manifest are SCHEMA=HR, a
\* blank line, the scripts header and path, a blank line, the packages
\* header and path, the packagesBodies header and path.
C2_WithBlankLineBetweenBlocks ==
  C2_Scenario =>
    Split("\n", manifest_content) =
      << "SCHEMA=HR", "",
         "-- Ejecucion de scripts sql", "database/plsql/hr/scripts/10_create_table.sql", "",
         "-- Ejecucion de script creacion de packages", "database/plsql/hr/packages/02_pkg.pks",
         "-- Ejecucion de script creacion de packagesBodies", "database/plsql/hr/packagesbodies/02_pkg.pkb" >>

\* C2 as amended: in the scenario the lines of the manifest are SCHEMA=HR, a
\* blank line, the scripts header and path, the packages header and path,
\* the packagesBodies header and path: the blocks of one original folder
\* are not separated by a blank line.
C2_ScenarioLines ==
  C2_Scenario =>
    Split("\n", manifest_content) =
      << "SCHEMA=HR", "",
         "-- Ejecucion de scripts sql", "database/plsql/hr/scripts/10_create_table.sql",
         "-- Ejecucion de script creacion de packages", "database/plsql/hr/packages/02_pkg.pks",
         "-- Ejecucion de script creacion de packagesBodies", "database/plsql/hr/packagesbodies/02_pkg.pkb" >>

\* The scenario of C2 with the package body first in the input list.
C2_Witness == C2_Scenario /\ all_files_data[1].filename_str = "02_pkg.pkb"

\* Entry i of the manifest is the path line of a file with extension ext.
IsPathEntryOf(i, suffix) ==
  manifest_entries[i].src # "" /\ Lower(PathSuffix(manifest_entries[i].src)) = suffix

\* C3: in src/Apolo.py every path line of a .pks file comes before every
\* path line of a .pkb file of the same original folder.
C3_PksBeforePkb ==
  (last_call = "generate" /\ revision = "Apolo") =>
    \A i, j \in 1..Len(manifest_entries) :
      ( /\ IsPathEntryOf(i, ".pks")
        /\ IsPathEntryOf(j, ".pkb")
        /\ PathParent(manifest_entries[i].src) = PathParent(manifest_entries[j].src) ) => i < j

\* A manifest of src/Apolo.py for an input in which a .pkb file precedes a
\* .pks file of the same folder.
C3_Witness ==
  /\ last_call = "generate" /\ revision = "Apolo"
  /\ \E i, j \in 1..Len(all_files_data) :
       /\ i < j
       /\ all_files_data[i].extension = ".pkb" /\ all_files_data[j].extension = ".pks"
       /\ OriginalFolder(all_files_data[i]) = OriginalFolder(all_files_data[j])

\* C4: every file that get_manifest_category gives a category has a line
\* database/plsql/<schema lower-case>/<folder of the category>/<filename>
\* in the returned text.
C4_CategorizedFileHasItsLine ==
  last_call = "generate" =>
    \A i \in 1..Len(all_files_data) :
      LET c == CategoryAt(revision, all_files_data[i])
          text_lines == Split("\n", manifest_content)
      IN c # None =>
           /\ c \in DestinationFolders
           /\ \E k \in 1..Len(text_lines) : text_lines[k] = ExpectedPathLine(c, all_files_data[i])

\* A manifest for the mixed-case schema name with a categorized file.
C4_Witness ==
  /\ last_call = "generate" /\ schema_name = "Dbaper"
  /\ \E i \in 1..Len(all_files_data) : CategoryAt(revision, all_files_data[i]) # None

\* C5: every line of the manifest that is neither the SCHEMA header, a
\* blank line nor a category header is the path line of exactly one
\* categorized input file.
C5_LineOfExactlyOneFile ==
  last_call = "generate" =>
    LET text_lines == Split("\n", manifest_content)
    IN \A k \in 2..Len(text_lines) :
         (text_lines[k] # "" /\ text_lines[k] \notin CategoryHeaders) =>
           Cardinality({i \in 1..Len(all_files_data) :
                          /\ CategoryAt(revision, all_files_data[i]) # None
                          /\ ExpectedPathLine(CategoryAt(revision, all_files_data[i]), all_files_data[i])
                               = text_lines[k]}) = 1

\* C7: when no file of the input is categorized the returned text is the
\* line SCHEMA=<schema upper-case> followed by one empty line, nothing else.
C7_OnlyHeaderWhenNothingCategorized ==
  (last_call = "generate" /\ NothingCategorized) =>
    /\ manifest_content = "SCHEMA=" \o SchemaUpper[schema_name] \o "\n"
    /\ Split("\n", manifest_content) = <<"SCHEMA=" \o SchemaUpper[schema_name], "">>

\* A manifest generated for a list that is not empty and has no categorized
\* file.
C7_Witness ==
  last_call = "generate" /\ NothingCategorized /\ Len(all_files_data) > 0 /\ schema_name = "Dbaper"

\* C8: when no file of the candidate list is categorized,
\* generate_and_write_manifest does not write manifest.txt.
C8_NoFileWhenNothingCategorized ==
  (last_call = "write" /\ NothingCategorized) => ~manifest_written

\* The relative paths of the files of the path lines of the manifest, in
\* the order of the lines.
ManifestSources ==
  LET path_entries == SelectSeq(manifest_entries, LAMBDA e : e.src # "")
  IN [i \in 1..Len(path_entries) |-> path_entries[i].src]

\* The leading number of the base name of the folder of the file at the
\* relative path q, Inf if it has none.
FolderNumber(q) ==
  LET base == PathName(PathParent(q))
  IN IF DigitPrefixLen(base) = 0 THEN Inf
     ELSE DigitsValue(SubSeq(base, 1, DigitPrefixLen(base)), 0)

\* C19: in the manifest either revision generates, the lines of a folder
\* whose base name has a smaller leading number come before the lines of
\* a folder with a greater one, and the lines of a folder whose base name
\* has no leading number come after those of every folder that has one.
C19_FoldersByLeadingNumber ==
  last_call = "generate" =>
    \A i, j \in 1..Len(ManifestSources) :
      NumLess(FolderNumber(ManifestSources[i]), FolderNumber(ManifestSources[j])) => i < j

\* src/Apolo.py generated the manifest of files given in the order of the
\* folders 10_y, A, 1_a/30_z: the lines are in the order 10_y, 1_a/30_z, A.
C19_Witness ==
  /\ last_call = "generate"
  /\ revision = "Apolo"
  /\ Len(all_files_data) = 3
  /\ all_files_data[1].relative_path_from_extracted = "10_y/t.trg"
  /\ all_files_data[2].relative_path_from_extracted = "A/02_pkg.pks"
  /\ all_files_data[3].relative_path_from_extracted = "1_a/30_z/5_s.sql"
  /\ ManifestSources = <<"10_y/t.trg", "1_a/30_z/5_s.sql", "A/02_pkg.pks">>

\* The order of the category blocks the claim gives.
C20_CategoryOrder ==
  <<"scripts", "packages", "packagesbodies", "procedures", "functions", "views", "triggers">>

\* The positions of the category headers in the manifest.
HeaderPositions ==
  {k \in 1..Len(manifest_entries) : manifest_entries[k].line \in CategoryHeaders}

\* The category whose header is at position k.
HeaderCategory(k) ==
  LET i == CHOOSE n \in 1..Len(MANIFEST_CATEGORIES) :
             MANIFEST_CATEGORIES[n].header = manifest_entries[k].line
  IN MANIFEST_CATEGORIES[i].key

\* The original folder of the block whose header is at position k: the
\* folder of the file of the path line right after the header.
HeaderFolder(k) == PathParent(manifest_entries[k + 1].src)

\* The place of the category c in the order of the claim.
CategoryRank(c) == CHOOSE n \in 1..Len(C20_CategoryOrder) : C20_CategoryOrder[n] = c

\* The category the revision that generated the manifest gives a file.
CategoryOfFile(file_data) ==
  IF revision = "Apolo"
  THEN get_manifest_category(file_data, MANIFEST_CATEGORIES, SQL_SPECIFIC_FOLDERS)
  ELSE get_manifest_category_steamlit(file_data, MANIFEST_CATEGORIES, SQL_SPECIFIC_FOLDERS)

\* C20: in a generated manifest every category header is followed by the
\* path line of a file, the headers of one original folder are in the
\* order scripts, packages, packagesbodies, procedures, functions, views,
\* triggers with no category twice, and a folder has the header of a
\* category exactly when one of its files is of that category.
C20_CategoryBlocksInFixedOrder ==
  last_call = "generate" =>
    /\ \A k \in HeaderPositions :
         /\ k < Len(manifest_entries)
         /\ manifest_entries[k + 1].src # ""
         /\ \E i \in 1..Len(all_files_data) :
              /\ OriginalFolder(all_files_data[i]) = HeaderFolder(k)
              /\ CategoryOfFile(all_files_data[i]) = HeaderCategory(k)
    /\ \A k, m \in HeaderPositions :
         (k < m /\ HeaderFolder(k) = HeaderFolder(m))
           => CategoryRank(HeaderCategory(k)) < CategoryRank(HeaderCategory(m))
    /\ \A i \in 1..Len(all_files_data) :
         CategoryOfFile(all_files_data[i]) # None =>
           \E k \in HeaderPositions :
             /\ HeaderFolder(k) = OriginalFolder(all_files_data[i])
             /\ HeaderCategory(k) = CategoryOfFile(all_files_data[i])

\* src/Apolo.py generated the manifest of a trigger, a function and a
\* script of the folder A, given in that order: the headers are those of
\* scripts, functions and triggers, in that order.
C20_Witness ==
  /\ last_call = "generate"
  /\ revision = "Apolo"
  /\ Len(all_files_data) = 3
  /\ all_files_data[1].relative_path_from_extracted = "A/6_t.trg"
  /\ all_files_data[2].relative_path_from_extracted = "A/8_f.fnc"
  /\ all_files_data[3].relative_path_from_extracted = "A/10_create_table.sql"
  /\ LinesOf(SelectSeq(manifest_entries, LAMBDA e : e.line \in CategoryHeaders))
       = << "-- Ejecucion de scripts sql",
            "-- Ejecucion de script creacion de funciones",
            "-- Ejecucion de script creacion de triggers" >>

\* The header at position k is the first header of its original folder.
FirstHeaderOfFolder(k) ==
  \A m \in HeaderPositions : m < k => HeaderFolder(m) # HeaderFolder(k)

\* The header at position k is the first header of the manifest.
FirstHeaderOfManifest(k) == \A m \in HeaderPositions : k <= m

\* The positions of the blank lines written after the blank line that
\* follows the SCHEMA header.
BlankPositions ==
  {k \in 3..Len(manifest_entries) : manifest_entries[k].line = ""}

\* C21: in a manifest either revision generates, a blank line is written
\* right before a category header exactly when the header is the first of
\* its folder and not the first of the manifest, every blank line after
\* the one that follows the SCHEMA header is right before a header, and no
\* two blank lines are consecutive.
C21_OneBlankLineBetweenFolderBlocks ==
  last_call = "generate" =>
    /\ \A k \in HeaderPositions :
         (k - 1) \in BlankPositions
           <=> (FirstHeaderOfFolder(k) /\ ~FirstHeaderOfManifest(k))
    /\ \A k \in BlankPositions : (k + 1) \in HeaderPositions
    /\ \A k \in 1..(Len(manifest_entries) - 1) :
         ~(manifest_entries[k].line = "" /\ manifest_entries[k + 1].line = "")

\* The leading number of the name of the file at the relative path q, Inf
\* if it has none.
FileNumber(q) ==
  LET name == PathName(q)
  IN IF DigitPrefixLen(name) = 0 THEN Inf
     ELSE DigitsValue(SubSeq(name, 1, DigitPrefixLen(name)), 0)

\* The file at q comes strictly before the file at r in the order (leading
\* number as an integer, then file name), files without number last.
PrefixThenNameLess(q, r) ==
  \/ NumLess(FileNumber(q), FileNumber(r))
  \/ FileNumber(q) = FileNumber(r) /\ StrLess(PathName(q), PathName(r))

\* The files at q and r are in the same (folder, category) block.
SameBlock(q, r) ==
  /\ PathParent(q) = PathParent(r)
  /\ CategoryOfFile(FileData(q)) = CategoryOfFile(FileData(r))

\* C22: in a generated manifest, of two path lines of one (folder,
\* category) block the one of the file with the smaller leading number,
\* or with the same number and the smaller name, comes first; a file
\* without leading number comes after those that have one.
C22_BlockByPrefixThenName ==
  last_call = "generate" =>
    \A i, j \in 1..Len(ManifestSources) :
      (SameBlock(ManifestSources[i], ManifestSources[j])
        /\ PrefixThenNameLess(ManifestSources[i], ManifestSources[j])) => i < j

\* src/Apolo.py generated the manifest of A/10_b.sql, A/z.sql, A/2_c.sql
\* given in that order: the lines are 2_c.sql, 10_b.sql, z.sql.
C22_Witness ==
  /\ last_call = "generate"
  /\ revision = "Apolo"
  /\ Len(all_files_data) = 3
  /\ all_files_data[1].relative_path_from_extracted = "A/10_b.sql"
  /\ all_files_data[2].relative_path_from_extracted = "A/z.sql"
  /\ all_files_data[3].relative_path_from_extracted = "A/2_c.sql"
  /\ ManifestSources = <<"A/2_c.sql", "A/10_b.sql", "A/z.sql">>

\* C25: in a manifest the earlier revision generates, inside every
\* original folder, script-like or not, the line of a .pks file comes
\* before the line of a .pkb file.
C25_SteamlitPksBeforePkbInEveryFolder ==
  (last_call = "generate" /\ revision = "steamlit") =>
    \A i, j \in 1..Len(ManifestSources) :
      (/\ PathParent(ManifestSources[i]) = PathParent(ManifestSources[j])
       /\ Lower(PathSuffix(ManifestSources[i])) = ".pks"
       /\ Lower(PathSuffix(ManifestSources[j])) = ".pkb") => i < j

\* ------------------------------------------------------------------------
\* Claims about the validator (SpecValidator)
\* ------------------------------------------------------------------------

\* The lines of FileLines of the form END [identifier]; .
EndLines == {"CREATE OR REPLACE PROCEDURE p IS BEGIN NULL; END p;", "END pkg;\n", "end;  \n"}

\* The extensions whose files need the terminating slash.
TerminatorCheckedExts == {".pks", ".pkb", ".prc", ".fnc", ".trg"}

\* Line numbers as they are written in a finding.
LineNumberText == <<"1", "2", "3", "4", "5">>

\* The finding of a missing slash citing the line number n.
MissingSlashFinding(n) ==
  "Línea " \o LineNumberText[n] \o ": Falta '/' al final después del bloque END;."

\* Line n is the only line of the file of the form END [identifier]; .
OnlyEndLine(n) ==
  /\ n \in 1..Len(lines)
  /\ lines[n] \in EndLines
  /\ \A i \in 1..Len(lines) : i # n => lines[i] \notin EndLines

\* C6: for a terminator-checked extension, when the last line is the only
\* END [identifier]; line check_slash_terminators returns exactly one
\* finding, citing the 1-based number of that line; when that line is
\* followed by one line holding only '/', it returns no finding.
C6_TerminatorBoundary ==
  (validator_call = "check_slash_terminators" /\ ext \in TerminatorCheckedExts) =>
    /\ OnlyEndLine(Len(lines)) => issues = <<MissingSlashFinding(Len(lines))>>
    /\ (OnlyEndLine(Len(lines) - 1) /\ lines[Len(lines)] \in {"/", "/\n"}) => issues = <<>>

\* A checked file of two lines or more that ends with its only END line.
C6_Witness ==
  /\ validator_call = "check_slash_terminators" /\ ext = ".prc"
  /\ Len(lines) >= 2 /\ OnlyEndLine(Len(lines))
  /\ Len(issues) = 1

\* The lines of FileLines that are blank or begin, after their leading
\* white space, with -- or /*.
BlankOrCommentLines == {"\n", "-- c\n", "  /* c\n"}

\* The lines of FileLines whose trimmed content is exactly '/'.
SlashLines == {"/\n", "/", " / \n"}

\* The numbers of the lines of the file of the form END [identifier]; .
EndLineNumbers == {n \in 1..Len(lines) : lines[n] \in EndLines}

\* The number of the last END line of a file that has one.
LastEndLineNumber == CHOOSE n \in EndLineNumbers : \A m \in EndLineNumbers : m <= n

\* After the last END line, blank and comment lines skipped, the file ends
\* or the first line left is not a slash line.
SlashMissingAfterLastEnd ==
  LET rest == {n \in (LastEndLineNumber + 1)..Len(lines) : lines[n] \notin BlankOrCommentLines}
  IN \/ rest = {}
     \/ lines[CHOOSE n \in rest : \A m \in rest : n <= m] \notin SlashLines

\* C23: check_slash_terminators returns at most one finding; it returns
\* one exactly when the extension is terminator-checked, the file has an
\* END line and the slash is missing after the last one, and the finding
\* cites the number of that last END line.
C23_OneFindingIffSlashMissing ==
  validator_call = "check_slash_terminators" =>
    /\ Len(issues) <= 1
    /\ Len(issues) = 1
         <=> (ext \in TerminatorCheckedExts /\ EndLineNumbers # {} /\ SlashMissingAfterLastEnd)
    /\ Len(issues) = 1 => issues[1] = MissingSlashFinding(LastEndLineNumber)

\* A package body whose END line is followed by a comment and then by a
\* statement: one finding, citing line 1.
C23_Witness ==
  /\ validator_call = "check_slash_terminators"
  /\ ext = ".pkb"
  /\ lines = <<"END pkg;\n", "  /* c\n", "NULL;\n">>
  /\ issues = <<MissingSlashFinding(1)>>

\* ------------------------------------------------------------------------
\* Claims about the classifier (SpecClassifier)
\* ------------------------------------------------------------------------

\* The category C10 gives each extension.
CategoryOfExtension ==
  [e \in ClassifiedExts |->
     CASE e = ".sql" -> "scripts"
       [] e = ".pks" -> "packages"
       [] e = ".pkb" -> "packagesbodies"
       [] e = ".prc" -> "procedures"
       [] e = ".fnc" -> "functions"
       [] e = ".vw" -> "views"
       [] e = ".trg" -> "triggers"
       [] OTHER -> None]

ScriptLikeDirectories == {"grants", "1_Scripts", "pkg/indices/x"}

\* The extensions with a category other than .sql.
RecognizedNonSqlExts == {".pks", ".pkb", ".prc", ".fnc", ".vw", ".trg"}

\* The category C24 gives a file of a recognized non-.sql extension.
C24_Category(file_data) ==
  IF PathParent(file_data.relative_path_from_extracted) \in ScriptLikeDirectories
  THEN "scripts"
  ELSE CategoryOfExtension[file_data.extension]

\* C24: in the earlier revision a file of a recognized non-.sql extension
\* gets the category scripts exactly when a directory of its relative path
\* has a script-like name, and the category of its extension otherwise.
C24_ForcedIntoScriptsByFolderOnly ==
  classifier_call = "steamlit" =>
    /\ file_data_1.extension \in RecognizedNonSqlExts => category_1 = C24_Category(file_data_1)
    /\ file_data_2.extension \in RecognizedNonSqlExts => category_2 = C24_Category(file_data_2)

\* The entries of the findings whose file has an extension that is not
\* entirely lower-case.
C9_UpperCaseEntries ==
  { i \in 1..Len(session_state.findings) :
      PathSuffix(session_state.findings[i].path) # Lower(PathSuffix(session_state.findings[i].path)) }

ManifestEntriesOfCopy ==
  IF copy_call = "Apolo"
  THEN content_entries(copy_schema, BranchName, copy_files_data, SQL_SPECIFIC_FOLDERS, MANIFEST_CATEGORIES)
  ELSE content_entries_steamlit(copy_schema, BranchName, copy_files_data, SQL_SPECIFIC_FOLDERS,
                                MANIFEST_CATEGORIES)

\* C11: in each revision, after a copy that returned true, every path line
\* of the manifest generated for the same files and schema is the
\* repository-relative path the file of that line was copied to.
C11_ManifestPathIsCopyTarget ==
  (copy_call # "none" /\ copy_outcome.ok) =>
    \A i \in 1..Len(ManifestEntriesOfCopy) :
      ManifestEntriesOfCopy[i].src # "" =>
        \E k \in 1..Len(copy_outcome.copied) :
          /\ copy_outcome.copied[k].src = TempDirName \o "/" \o ManifestEntriesOfCopy[i].src
          /\ copy_outcome.copied[k].dest = ManifestEntriesOfCopy[i].line

\* The indices of the files of the list handed to the copy that have a
\* destination in the revision of the call.
CopyHasDestination(i) ==
  IF copy_call = "Apolo"
  THEN Lower(copy_files_data[i].extension) \in
         {".sql", ".pks", ".pkb", ".prc", ".fnc", ".trg", ".vw", ".fmb", ".rdf"}
  ELSE Lower(copy_files_data[i].extension) \in {".sql", ".pks", ".pkb", ".prc", ".fnc", ".trg", ".vw"}

\* The file at index i of the list handed to the copy was copied.
CopiedAt(i) ==
  \E k \in 1..Len(copy_outcome.copied) : copy_outcome.copied[k].src = copy_files_data[i].absolute_path

\* C15: when the copy of one file fails, every other file of the list
\* that has a destination is still copied (and the number of files copied
\* is the number of those).
C15_FailureSkipsOnlyThatFile ==
  (copy_call # "none" /\ copy_fails_at > 0 /\ CopyHasDestination(copy_fails_at)) =>
    /\ \A i \in 1..Len(copy_files_data) :
         (i # copy_fails_at /\ CopyHasDestination(i)) => CopiedAt(i)
    /\ Len(copy_outcome.copied) =
         Cardinality({i \in 1..Len(copy_files_data) : i # copy_fails_at /\ CopyHasDestination(i)})

\* The folder of the destination that C16 gives for each extension.
C16_DestinationFolder ==
  [e \in {".sql", ".pks", ".pkb", ".prc", ".fnc", ".trg", ".vw", ".fmb", ".rdf"} |->
     CASE e = ".sql" -> "database/plsql/<schema>/scripts/"
       [] e = ".pks" -> "database/plsql/<schema>/packages/"
       [] e = ".pkb" -> "database/plsql/<schema>/packagesbodies/"
       [] e = ".prc" -> "database/plsql/<schema>/procedures/"
       [] e = ".fnc" -> "database/plsql/<schema>/functions/"
       [] e = ".trg" -> "database/plsql/<schema>/triggers/"
       [] e = ".vw" -> "database/plsql/<schema>/views/"
       [] e = ".fmb" -> "fuentes/forma/"
       [] e = ".rdf" -> "fuentes/reporte/"]

\* The destination C16 gives for the file f under the schema written
\* schema_lower in lower case.
C16_Destination(f, schema_lower) ==
  LET folder == C16_DestinationFolder[f.extension]
      i == IndexOf("<", folder)
  IN IF i = 0 THEN folder \o f.filename_str
     ELSE SubSeq(folder, 1, i - 1) \o schema_lower \o SubSeq(folder, i + 8, Len(folder)) \o f.filename_str

\* C16: after a call of copy_extracted_files_to_repo of src/Apolo.py in
\* which no copy fails, the files copied are, in the order of the list,
\* the files with one of the nine extensions, each to the destination the
\* claim gives (schema in lower case, file name unchanged); every other
\* file is warned about and not copied, and the call returns true.
C16_DestinationByExtension ==
  (copy_call = "Apolo" /\ copy_fails_at = 0) =>
    LET with_dest == SelectSeq(copy_files_data, LAMBDA f : f.extension \in DOMAIN C16_DestinationFolder)
        without == SelectSeq(copy_files_data, LAMBDA f : f.extension \notin DOMAIN C16_DestinationFolder)
    IN /\ copy_outcome.ok
       /\ Len(copy_outcome.copied) = Len(with_dest)
       /\ \A k \in 1..Len(with_dest) :
            /\ copy_outcome.copied[k].src = with_dest[k].absolute_path
            /\ copy_outcome.copied[k].dest = C16_Destination(with_dest[k], SchemaLower[copy_schema])
       /\ copy_outcome.skipped =
            [k \in 1..Len(without) |-> without[k].relative_path_from_extracted]

\* src/Apolo.py copied a form and a view around a file without destination,
\* under the schema Dbaper.
C16_Witness ==
  /\ copy_call = "Apolo"
  /\ copy_fails_at = 0
  /\ copy_schema = "Dbaper"
  /\ Len(copy_files_data) = 3
  /\ copy_files_data[1].relative_path_from_extracted = "B/1_f.fmb"
  /\ copy_files_data[2].relative_path_from_extracted = "C/2_s.seq"
  /\ copy_files_data[3].relative_path_from_extracted = "2_x/3_v.vw"
  /\ copy_outcome.copied =
       << [src |-> "automation_streamlit_tmp/B/1_f.fmb", dest |-> "fuentes/forma/1_f.fmb"],
          [src |-> "automation_streamlit_tmp/2_x/3_v.vw", dest |-> "database/plsql/dbaper/views/3_v.vw"] >>
  /\ copy_outcome.skipped = <<"C/2_s.seq">>

\* ------------------------------------------------------------------------
\* Claims about the collectors (SpecCollector)
\* ------------------------------------------------------------------------

\* The file at the relative path q is below a directory whose name contains
\* "rollback" in any case, directly or at any depth.
BelowRollback(q) ==
  \E k \in 1..(Len(PathParts(q)) - 1) : Contains("rollback", Lower(PathParts(q)[k]))

\* C12: neither collector returns a file located below a directory whose
\* name contains "rollback", directly in it or in one of its
\* subdirectories.
C12_NothingBelowRollback ==
  /\ \A i \in 1..Len(collector_files_data) :
       ~BelowRollback(collector_files_data[i].relative_path_from_extracted)
  /\ \A i \in 1..Len(collector_ordered) : ~BelowRollback(ExtractedPath(collector_ordered[i]))

\* The list returned by a call of collect_files_for_manifest.
ManifestCollectorCalled ==
  collector_call \in {"collect_files_for_manifest", "collect_files_for_manifest_steamlit"}

\* The triple (parent folder, numeric prefix, file name) of x is at most
\* that of y.
FolderPrefixNameLeq(x, y) ==
  LET fx == PathParent(x.relative_path_from_extracted)
      fy == PathParent(y.relative_path_from_extracted)
  IN \/ StrLess(fx, fy)
     \/ /\ fx = fy
        /\ \/ NumLess(x.prefix_num, y.prefix_num)
           \/ x.prefix_num = y.prefix_num /\ ~StrLess(y.filename_str, x.filename_str)

\* C13: the list returned by collect_files_for_manifest is ordered by the
\* triple (parent folder of the relative path, numeric prefix of the file
\* name, file name): the files of one folder are contiguous and, inside a
\* folder, ordered by numeric prefix, files without one last, then by name.
C13_OrderedByFolderPrefixName ==
  ManifestCollectorCalled =>
    \A i, j \in 1..Len(collector_files_data) :
      i < j => FolderPrefixNameLeq(collector_files_data[i], collector_files_data[j])

\* ------------------------------------------------------------------------
\* Claims about the wizard (Spec)
\* ------------------------------------------------------------------------

\* C14: in every state of a session with level >= 2, and in every state
\* where the execute button has started the process, the analysis is done
\* and the findings of the analysed files hold no issue.
C14_FindingsGateProgression ==
  (session_state.level >= 2 \/ process.started) =>
    /\ session_state.analysis_done
    /\ TotalIssues(session_state.findings) = 0

\* The execute button ran the whole process at level 3 for an archive
\* whose analysed files have no finding.
C14_Witness ==
  /\ session_state.level = 3
  /\ process.started
  /\ process.completed
  /\ Len(session_state.findings) > 0

\* The analysis loop has run: src/Apolo.py skips it when no candidate file
\* was collected.
AnalysisLoopRan ==
  /\ session_state.analysis_done
  /\ app = "Apolo" => session_state.temp_extracted_files_data # <<>>

\* C17: once the analysis loop has run, the findings hold one entry for
\* each file of the ordered analysis list, in its order; the entry of a
\* file that cannot be read is the read error of that file, and the entry
\* of every other file is what the terminator check gives for its lines.
C17_ReadErrorDoesNotStopAnalysis ==
  AnalysisLoopRan =>
    /\ Len(session_state.findings) = Len(session_state.ordered_files_list)
    /\ \A i \in 1..Len(session_state.findings) :
         LET f_rel_path == session_state.ordered_files_list[i]
         IN /\ session_state.findings[i].path = f_rel_path
            /\ session_state.findings[i].issues =
                 IF ExtractedPath(f_rel_path) \in UnreadableFiles
                 THEN <<"Error al leer el archivo '" \o PathName(f_rel_path) \o "': <e>">>
                 ELSE check_slash_terminators(ArchiveFileLines[ExtractedPath(f_rel_path)],
                                              Lower(PathSuffix(f_rel_path)))

\* An archive with a file that cannot be read and, after it in the
\* analysis list, a file that lacks its slash was analysed: each has its
\* own finding.
C17_Witness ==
  /\ session_state.analysis_done
  /\ Len(session_state.findings) = 2
  /\ session_state.findings[1].path = "A/2_u.fnc"
  /\ session_state.findings[1].issues = <<"Error al leer el archivo '2_u.fnc': <e>">>
  /\ session_state.findings[2].path = "A/3_q.PRC"
  /\ session_state.findings[2].issues = <<SlashIssue(1)>>

\* C18: whenever the uploader holds a valid archive, whatever its file
\* name, and the session holds an extracted archive, the temporary
\* directory holds the files of the archive in the uploader and the
\* analysis list, the candidate list and the findings stored in the
\* session are those of that archive: an upload made after an earlier
\* archive was extracted and analysed replaces what was stored for it.
C18_StoredAnalysisIsOfLatestUpload ==
  (uploader_lvl1.name # None /\ uploader_lvl1.valid /\ session_state.archive_extracted) =>
    /\ session_state.analysis_done
    /\ temp_disk.tree = uploader_lvl1.walk
    /\ session_state.ordered_files_list = collect_and_order_files(uploader_lvl1.walk)
    /\ session_state.temp_extracted_files_data =
         IF app = "Apolo" THEN collect_files_for_manifest(uploader_lvl1.walk)
         ELSE IF session_state.ordered_files_list = <<>> THEN <<>>
         ELSE collect_files_for_manifest_steamlit(uploader_lvl1.walk)
    /\ \A i \in 1..Len(session_state.findings) :
         \E k \in 1..Len(uploader_lvl1.walk) :
           uploader_lvl1.walk[k] = ExtractedPath(session_state.findings[i].path)

\* The characters of [A-Z0-9_].
BranchNameChars == UpperChars \o DigitChars \o "_"

\* name matches F_[A-Z0-9_]+ .
MatchesBranchPattern(name) ==
  /\ Len(name) > 2
  /\ SubSeq(name, 1, 2) = "F_"
  /\ \A i \in 3..Len(name) : Contains(CharAt(name, i), BranchNameChars)

\* name is F_ followed by at least one character, none of them a space.
StartsWithPrefixNoSpace(name) ==
  /\ Len(name) > 2
  /\ SubSeq(name, 1, 2) = "F_"
  /\ ~Contains(" ", name)

\* The branch name of the session: the text of the field, trimmed and in
\* upper case.
SessionBranchName == Upper(Strip(session_state.branch_name_input))

\* C26 as stated: at level 3 the branch name of the session, and the
\* branch name of every process run, matches F_[A-Z0-9_]+ .
C26_BranchNameMatchesPattern ==
  /\ session_state.level = 3 => MatchesBranchPattern(SessionBranchName)
  /\ process.started => MatchesBranchPattern(process.branch_name)

\* C26 amended: at level 3 the branch name of the session, and the branch
\* name of every process run, is F_ followed by at least one character and
\* holds no space.
C26_BranchNameHasPrefixAndNoSpace ==
  /\ session_state.level = 3 => StartsWithPrefixNoSpace(SessionBranchName)
  /\ process.started => StartsWithPrefixNoSpace(process.branch_name)

\* A process was run with the branch name typed as "f_1 ".
C26_Witness ==
  /\ process.started
  /\ process.branch_name = "F_1"
  /\ session_state.branch_name_input = "f_1 "

\* The three steps of the process in the order the execute button runs
\* them.
ProcessSteps ==
  <<"create_and_checkout_branch", "copy_extracted_files_to_repo", "generate_and_write_manifest">>

\* C27: a process runs create_and_checkout_branch, then the copy, then the
\* manifest, each step after the first exactly when the step before it
\* returned true; create_and_checkout_branch returned true only with the
\* target branch checked out after all five git commands; files are copied
\* only after it returned true and manifest.txt is written only after the
\* copy returned true.
C27_StepsInOrderEachAfterSuccess ==
  process.started =>
    /\ Len(process.steps) \in 1..3
    /\ process.steps = SubSeq(ProcessSteps, 1, Len(process.steps))
    /\ Len(process.results) = Len(process.steps)
    /\ \A k \in 1..2 :
         k <= Len(process.results) => (Len(process.steps) > k <=> process.results[k])
    /\ process.results[1] =>
         /\ process.branch = process.branch_name
         /\ Len(process.commands) = 5
         /\ process.commands[1] = "checkout main"
         /\ process.commands[2] = "pull"
    /\ process.copied # <<>> => process.results[1]
    /\ process.manifest_written => (Len(process.results) >= 2 /\ process.results[2])

\* A process whose git clean failed and that went through the three steps
\* and wrote manifest.txt.
C27_Witness ==
  /\ process.started
  /\ process.clean_failed
  /\ process.steps = ProcessSteps
  /\ process.copied # <<>>
  /\ process.manifest_written

\* The session is as the top of the script initialises it, but for the
\* level-2 inputs.
AnalysisStateReset(ss) ==
  /\ ss.level = 1
  /\ ss.temp_dir = None
  /\ ~ss.archive_extracted
  /\ ~ss.analysis_done
  /\ ss.findings = <<>>
  /\ ss.ordered_files_list = <<>>
  /\ ss.temp_extracted_files_data = <<>>
  /\ ss.last_uploaded_filename = None

\* C28: when the runs answering an event removed the temporary directory
\* and cleared the keys, the session they end with is at level 1 with the
\* analysis state as initialised, and repo_path_input, branch_name_input
\* and selected_schema are what they were before the event.
C28_CleanupResetsOnlyAnalysisState ==
  [][cleanup_done' =>
       /\ AnalysisStateReset(session_state')
       /\ session_state'.repo_path_input = session_state.repo_path_input
       /\ session_state'.branch_name_input = session_state.branch_name_input
       /\ session_state'.selected_schema = session_state.selected_schema]_vars

\* The extensions of the database scripts that have a manifest category.
CoreDbScriptExts == {".sql", ".pks", ".pkb", ".prc", ".fnc", ".vw", ".trg"}

\* The files of the archive that were validated, .seq files apart.
ValidatedFiles ==
  { ExtractedPath(session_state.findings[i].path) : i \in
      { n \in 1..Len(session_state.findings) :
          Lower(PathSuffix(session_state.findings[n].path)) # ".seq" } }

\* The candidate files with the extension of a database script.
CandidateDbScripts ==
  { session_state.temp_extracted_files_data[i].relative_path_from_extracted : i \in
      { n \in 1..Len(session_state.temp_extracted_files_data) :
          Lower(session_state.temp_extracted_files_data[n].extension) \in CoreDbScriptExts } }

\* C29: in src/Apolo.py, once the analysis loop has run, the validated
\* files other than .seq files are exactly the candidate files with the
\* extension of a database script.
C29_ValidatedAreTheCandidateScripts ==
  (app = "Apolo" /\ AnalysisLoopRan) => ValidatedFiles = CandidateDbScripts

\* C30: at level 3, and whenever a process was started, the list of
\* candidate files of the session is not empty.
C30_NoProcessWithoutCandidateFiles ==
  (session_state.level = 3 \/ process.started) =>
    session_state.temp_extracted_files_data # <<>>

====
